---------------------------- MODULE Spec2Model ----------------------------
(***************************************************************************)
(* A model of the work-item pipeline and of the fatigue-aware feed of      *)
(* pipeline_processor: the ledger (db.py), the stages (tasks.py), the      *)
(* orchestrated run (assets.py, api.py) and the feed build (feed/rank.py). *)
(*                                                                         *)
(* Conventions.  A nullable column or argument is a sequence of length at  *)
(* most one: None is <<>> and Some(v) is <<v>>.  A table with a unique key *)
(* other than its row id (work_items) is a set of rows with an id column,  *)
(* so that the uniqueness of the key is something the model can violate.  *)
(* time.time() is the variable now; a handler that reads the clock        *)
(* advances it by one tick.                                                *)
(***************************************************************************)
EXTENDS Integers, Sequences, FiniteSets, TLC

VARIABLES
    now,              \* time.time(), in ticks
    work_items,       \* committed rows of the table work_items
    tx,               \* per connection: the writes of its open transaction
    subjects,         \* committed rows of the table subjects, by (type, id)
    links,            \* committed rows of the table user_repo_links
    recommendations,  \* committed rows of the table recommendations, by key
    run,              \* the orchestrated run in progress, and what it did so far
    last              \* what the last operation was and what it did (history)

vars == <<now, work_items, tx, subjects, links, recommendations, run, last>>

----------------------------------------------------------------------------
(* Bounds of the model.                                                    *)

\* The clock stops at MaxTime: at most MaxTime - 1 handlers run.
MaxTime == 4

\* The ledger-only specification runs at most MaxLedgerTime - 1 upserts.
MaxLedgerTime == 4

----------------------------------------------------------------------------
(* Nullable values.                                                        *)

None == <<>>

Some(v) == <<v>>

\* SQL COALESCE(a, b)
Coalesce(a, b) == IF a # None THEN a ELSE b

----------------------------------------------------------------------------
(* The ledger: db.py, table work_items.                                    *)

USER_KINDS ==
    {"fetch_profile", "fetch_repos", "select_highlighted_repos",
     "infer_user_theme", "embed_user_profile"}

REPO_KINDS ==
    {"enhance_repo_media", "generate_repo_blurb", "embed_repo",
     "extract_repo_emphasis", "extract_repo_keywords", "extract_repo_kind"}

WorkKey(kind, subject_type, subject_id) ==
    [kind |-> kind, subject_type |-> subject_type, subject_id |-> subject_id]

KeyOf(r) == WorkKey(r.kind, r.subject_type, r.subject_id)

\* uuid.uuid4().hex: an id no row in use has.
FreshId(rows) ==
    CHOOSE i \in 1..(Cardinality(rows) + 1) : \A r \in rows : r.id # i

\* SELECT ... FROM work_items WHERE kind=%s AND subject_type=%s AND
\* subject_id=%s, fetchone(): None, or Some(row).
get_work_item(rows, kind, subject_type, subject_id) ==
    LET hit == {r \in rows : KeyOf(r) = WorkKey(kind, subject_type, subject_id)}
    IN  IF hit = {} THEN None ELSE Some(CHOOSE r \in hit : TRUE)

\* A mutant of _already_succeeded: the stage never finds its work done.
_already_succeeded_never(rows, kind, subject_type, subject_id) ==
    FALSE

_already_succeeded(rows, kind, subject_type, subject_id) ==
    LET row == get_work_item(rows, kind, subject_type, subject_id)
    IN  row # None /\ row[1].status = "succeeded"

\* A mutant of set_work_status: a plain INSERT, with no conflict target.
set_work_status_insert_only(rows, used, kind, subject_type, subject_id, status, output_json, t) ==
    rows \cup
        {[id |-> FreshId(used), kind |-> kind, subject_type |-> subject_type,
          subject_id |-> subject_id, status |-> status,
          output_json |-> output_json,
          processed_at |-> IF status = "succeeded" THEN Some(t) ELSE None]}

\* A mutant of set_work_status: the update overwrites output_json and
\* processed_at with the values passed, without COALESCE.
set_work_status_no_coalesce(rows, used, kind, subject_type, subject_id, status, output_json, t) ==
    LET processed_at == IF status = "succeeded" THEN Some(t) ELSE None
        hit == {r \in rows : KeyOf(r) = WorkKey(kind, subject_type, subject_id)}
    IN  IF hit = {}
        THEN rows \cup
                {[id |-> FreshId(used), kind |-> kind,
                  subject_type |-> subject_type, subject_id |-> subject_id,
                  status |-> status, output_json |-> output_json,
                  processed_at |-> processed_at]}
        ELSE (rows \ hit) \cup
                {[r EXCEPT !.status = status, !.output_json = output_json,
                           !.processed_at = processed_at] : r \in hit}

\* INSERT INTO work_items ... ON CONFLICT(kind, subject_type, subject_id)
\* DO UPDATE SET status=excluded.status,
\*   output_json=COALESCE(excluded.output_json, work_items.output_json),
\*   processed_at=COALESCE(excluded.processed_at, work_items.processed_at)
\* on the rows the connection sees; used holds the rows whose ids are taken.
set_work_status(rows, used, kind, subject_type, subject_id, status, output_json, t) ==
    LET processed_at == IF status = "succeeded" THEN Some(t) ELSE None
        hit == {r \in rows : KeyOf(r) = WorkKey(kind, subject_type, subject_id)}
    IN  IF hit = {}
        THEN rows \cup
                {[id |-> FreshId(used), kind |-> kind,
                  subject_type |-> subject_type, subject_id |-> subject_id,
                  status |-> status, output_json |-> output_json,
                  processed_at |-> processed_at]}
        ELSE (rows \ hit) \cup
                {[r EXCEPT !.status = status,
                           !.output_json = Coalesce(output_json, @),
                           !.processed_at = Coalesce(processed_at, @)] : r \in hit}

\* A mutant of reset_user_work_items_to_pending: only the status is reset.
reset_user_work_items_status_only(rows, username, kinds) ==
    {IF r.kind \in kinds /\ r.subject_type = "user" /\ r.subject_id = username
     THEN [r EXCEPT !.status = "pending"]
     ELSE r : r \in rows}

\* UPDATE work_items SET status='pending', output_json=NULL, processed_at=NULL
\* WHERE kind IN (kinds) AND subject_type='user' AND subject_id=username
reset_user_work_items_to_pending(rows, username, kinds) ==
    {IF r.kind \in kinds /\ r.subject_type = "user" /\ r.subject_id = username
     THEN [r EXCEPT !.status = "pending", !.output_json = None, !.processed_at = None]
     ELSE r : r \in rows}

\* A mutant of reset_user_repo_work_items_to_pending: the subquery on the
\* links of the user is left out.
reset_user_repo_work_items_any_repo(rows, lnks, username, kinds) ==
    IF kinds = {} THEN rows
    ELSE {IF r.kind \in kinds /\ r.subject_type = "repo"
          THEN [r EXCEPT !.status = "pending", !.output_json = None,
                         !.processed_at = None]
          ELSE r : r \in rows}

\* The same UPDATE for subject_type='repo' and subject_id IN (SELECT repo_id
\* FROM user_repo_links WHERE username=%s); with no kinds it returns early.
reset_user_repo_work_items_to_pending(rows, lnks, username, kinds) ==
    LET linked == {l.repo_id : l \in {x \in lnks : x.username = username}}
    IN  IF kinds = {} THEN rows
        ELSE {IF r.kind \in kinds /\ r.subject_type = "repo" /\ r.subject_id \in linked
              THEN [r EXCEPT !.status = "pending", !.output_json = None,
                             !.processed_at = None]
              ELSE r : r \in rows}

----------------------------------------------------------------------------
(* Connections and their transactions (psycopg: autocommit is off, every   *)
(* statement joins the open transaction, conn.commit() ends it).           *)

Conns == {"c1", "c2"}

\* No run was triggered yet.
NoRun ==
    [phase |-> "idle", n |-> 0, username |-> "", faults |-> 0, crashed |-> FALSE,
     after_crash |-> FALSE, step |-> <<>>, at_trigger |-> {}, log |-> {},
     returned |-> None]

NoTx == [rows |-> {}, gone |-> {}]

\* The rows a connection sees: the committed ones, with its own writes.
View(c) ==
    {r \in work_items :
        r \notin tx[c].gone /\ \A w \in tx[c].rows : w.id # r.id}
    \cup tx[c].rows

\* The keys a connection has written and not yet committed.
Written(c) == {KeyOf(r) : r \in tx[c].rows \cup tx[c].gone}

\* The unique index ux_work_item(kind, subject_type, subject_id): a writer
\* of a key waits for the transaction that holds an uncommitted write of it.
MustWait(c, k) == \E d \in Conns \ {c} : k \in Written(d)

\* Every row whose id is taken, committed or not.
AllRows == work_items \cup UNION {tx[c].rows : c \in Conns}

\* The transaction of c after a statement turned the rows it sees into new.
Wrote(c, new) ==
    [rows |-> {r \in new : r \notin work_items},
     gone |-> {r \in work_items : r \notin new}]

----------------------------------------------------------------------------
(* The ledger on its own: two connections issue set_work_status calls,     *)
(* resets, commits and rollbacks in any interleaving.                      *)

LedgerKeys ==
    {WorkKey("fetch_profile", "user", "alice"),
     WorkKey("embed_repo", "repo", "alice/app")}

LedgerOutputs ==
    {None, Some([profile_found |-> TRUE]), Some([reason |-> "batch_api_error"])}

LedgerLinks ==
    {[username |-> "alice", repo_id |-> "alice/app", include_reason |-> "owned",
      user_commit_days |-> None]}

EmptyFn == [x \in {} |-> 0]

InitLedger ==
    /\ now = 1
    /\ work_items = {}
    /\ tx = [c \in Conns |-> NoTx]
    /\ subjects = EmptyFn
    /\ links = LedgerLinks
    /\ recommendations = EmptyFn
    /\ run = NoRun
    /\ last = [op |-> "init"]

\* One call set_work_status(conn, kind, subject_type, subject_id, status, output_json).
SetWorkStatus(c, k, status, output_json) ==
    /\ now < MaxLedgerTime
    /\ ~MustWait(c, k)
    /\ tx' = [tx EXCEPT ![c] =
                Wrote(c, set_work_status(View(c), AllRows, k.kind, k.subject_type,
                                         k.subject_id, status, output_json, now))]
    /\ now' = now + 1
    /\ last' = [op |-> "set_work_status", conn |-> c, key |-> k, status |-> status,
                output_json |-> output_json, t |-> now]
    /\ UNCHANGED <<work_items, subjects, links, recommendations, run>>

\* The two resets of restart(), in the transaction of c.
ResetWorkItems(c, username) ==
    LET new == reset_user_repo_work_items_to_pending(
                   reset_user_work_items_to_pending(View(c), username, USER_KINDS),
                   links, username, REPO_KINDS)
    IN  /\ new # View(c)
        /\ \A r \in View(c) : r \notin new => ~MustWait(c, KeyOf(r))
        /\ tx' = [tx EXCEPT ![c] = Wrote(c, new)]
        /\ last' = [op |-> "reset", conn |-> c, username |-> username]
        /\ UNCHANGED <<now, work_items, subjects, links, recommendations, run>>

\* conn.commit()
Commit(c) ==
    /\ tx[c] # NoTx
    /\ work_items' = View(c)
    /\ tx' = [tx EXCEPT ![c] = NoTx]
    /\ last' = [op |-> "commit", conn |-> c]
    /\ UNCHANGED <<now, subjects, links, recommendations, run>>

\* The connection is dropped with its transaction open (the handler raised).
Rollback(c) ==
    /\ tx[c] # NoTx
    /\ tx' = [tx EXCEPT ![c] = NoTx]
    /\ last' = [op |-> "rollback", conn |-> c]
    /\ UNCHANGED <<now, work_items, subjects, links, recommendations, run>>

NextLedger ==
    \/ \E c \in Conns, k \in LedgerKeys, s \in {"running", "succeeded", "failed"},
          o \in LedgerOutputs : SetWorkStatus(c, k, s, o)
    \/ \E c \in Conns : ResetWorkItems(c, "alice")
    \/ \E c \in Conns : Commit(c)
    \/ \E c \in Conns : Rollback(c)

SpecLedger == InitLedger /\ [][NextLedger]_vars

\* The row of key k that connection c sees: None, or Some(row).
ViewRow(c, k) == get_work_item(View(c), k.kind, k.subject_type, k.subject_id)

\* C3: a set_work_status call on a key that already has a row always replaces
\* the status with the one passed, replaces the output only when a non-null
\* output is passed, and replaces processed_at only when the new status is
\* succeeded (then with the time of the call); otherwise the stored output
\* and processed_at stay exactly as they were.
C3_UpsertFrame ==
    [][\A c \in Conns, k \in LedgerKeys :
          (/\ last'.op = "set_work_status"
           /\ last'.conn = c
           /\ last'.key = k
           /\ ViewRow(c, k) # None)
          => /\ ViewRow(c, k)' # None
             /\ ViewRow(c, k)'[1].id = ViewRow(c, k)[1].id
             /\ ViewRow(c, k)'[1].status = last'.status
             /\ ViewRow(c, k)'[1].output_json =
                    (IF last'.output_json # None THEN last'.output_json
                     ELSE ViewRow(c, k)[1].output_json)
             /\ ViewRow(c, k)'[1].processed_at =
                    (IF last'.status = "succeeded" THEN Some(last'.t)
                     ELSE ViewRow(c, k)[1].processed_at)]_vars

\* A succeeded row with an output was moved to running with no output, and
\* still has its output and its processed_at.
C3_Witness ==
    /\ last.op = "set_work_status"
    /\ last.status = "running"
    /\ last.output_json = None
    /\ ViewRow(last.conn, last.key) # None
    /\ ViewRow(last.conn, last.key)[1].status = "running"
    /\ ViewRow(last.conn, last.key)[1].output_json # None
    /\ ViewRow(last.conn, last.key)[1].processed_at # None

OneRowPerKey(rows) == \A r1, r2 \in rows : KeyOf(r1) = KeyOf(r2) => r1 = r2

\* C4: in every reachable state the committed ledger, and the ledger as any
\* connection sees it, holds at most one row per (kind, subject_type,
\* subject_id), whatever the interleaving of the set_work_status calls of the
\* two connections: a write for an existing key updates its row.
C4_OneRowPerKey ==
    /\ OneRowPerKey(work_items)
    /\ \A c \in Conns : OneRowPerKey(View(c))

\* A connection has just written a key whose row was committed before, while
\* the other connection has a transaction open.
C4_Witness ==
    /\ last.op = "set_work_status"
    /\ tx[last.conn].gone # {}
    /\ \E d \in Conns \ {last.conn} : tx[d] # NoTx
    /\ \E r \in work_items : KeyOf(r) = last.key

----------------------------------------------------------------------------
(* Subjects and links: db.py, tables subjects and user_repo_links.         *)

\* SELECT ... FROM subjects WHERE subject_type=%s AND subject_id=%s
get_subject(subs, subject_type, subject_id) ==
    IF <<subject_type, subject_id>> \in DOMAIN subs
    THEN Some(subs[<<subject_type, subject_id>>])
    ELSE None

\* INSERT INTO subjects ... ON CONFLICT DO UPDATE SET data_json, updated_at:
\* the embedding column of an existing row is kept.
upsert_subject(subs, subject_type, subject_id, data, t) ==
    LET key == <<subject_type, subject_id>>
    IN  [k \in DOMAIN subs \cup {key} |->
            IF k = key
            THEN [data |-> data, updated_at |-> t,
                  embedding |-> IF key \in DOMAIN subs THEN subs[key].embedding
                                ELSE None]
            ELSE subs[k]]

\* models.UserSubject; login is the one required field.
UserSubject(login, bio, theme, highlighted_repos, is_ghost) ==
    [login |-> login, bio |-> bio, theme |-> theme,
     highlighted_repos |-> highlighted_repos, is_ghost |-> is_ghost]

\* models.RepoSubject with the fields the tasks add left at their defaults.
RepoSubject(id, name, description, language, pushed_at) ==
    [id |-> id, name |-> name, description |-> description,
     language |-> language, pushed_at |-> pushed_at, link |-> None,
     generated_description |-> None, emphasis |-> None, keywords |-> None,
     kind |-> None]

\* None when the row is missing or its JSON does not validate (no login).
get_user_subject(subs, username) ==
    LET row == get_subject(subs, "user", username)
    IN  IF row = None THEN None
        ELSE IF row[1].data.login = None THEN None
        ELSE Some(row[1].data)

get_repo_subject(subs, repo_id) ==
    LET row == get_subject(subs, "repo", repo_id)
    IN  IF row = None THEN None ELSE Some(row[1].data)

\* INSERT INTO user_repo_links ... ON CONFLICT(username, repo_id) DO UPDATE
upsert_user_repo_link(lnks, username, repo_id, include_reason, user_commit_days) ==
    {l \in lnks : ~(l.username = username /\ l.repo_id = repo_id)}
    \cup {[username |-> username, repo_id |-> repo_id,
           include_reason |-> include_reason,
           user_commit_days |-> user_commit_days]}

\* repo_id.split("/", 1) for the repository ids of the model; an id outside
\* the domain has no "/" in it.
RepoIdSplit ==
    [r \in {"alice/app", "alice/lib", "bob/lib", "bob/kit", "carol/lib"} |->
        CASE r = "alice/app" -> <<"alice", "app">>
          [] r = "alice/lib" -> <<"alice", "lib">>
          [] r = "bob/lib" -> <<"bob", "lib">>
          [] r = "carol/lib" -> <<"carol", "lib">>
          [] OTHER -> <<"bob", "kit">>]

\* repo_id.split("/")[-1]
RepoIdName(repo_id) ==
    IF repo_id \in DOMAIN RepoIdSplit THEN RepoIdSplit[repo_id][2] ELSE repo_id

----------------------------------------------------------------------------
(* The stages: tasks.py.  A stage is an operator from the committed        *)
(* database, its arguments, what the providers answer and the time to the  *)
(* database it leaves committed, with the provider calls it made.  A stage *)
(* opens its own connection, so what it wrote and did not commit is gone   *)
(* when it raises.                                                         *)

Db(w, s, l) == [work_items |-> w, subjects |-> s, links |-> l]

\* One call of a provider; ids names the subjects whose text was sent.
Call(api) == [api |-> api, ids |-> <<>>]

\* The stage found its work item succeeded (embed_user_profile: succeeded
\* with the hash of the current text) and returned at once.
Skipped(db) ==
    [db |-> db, outcome |-> "skipped", calls |-> <<>>]

\* The stage ran to its end (or to a return) and committed db.
Returned(db, calls) ==
    [db |-> db, outcome |-> "returned", calls |-> calls]

\* The stage raised: the database is as it was at its last commit.
Raised(db, calls) ==
    [db |-> db, outcome |-> "raised", calls |-> calls]

\* set_work_status on the connection of a stage that runs alone.
Status(w, kind, subject_type, subject_id, status, output_json, t) ==
    set_work_status(w, w, kind, subject_type, subject_id, status, output_json, t)

\* A mutant of fetch_profile: the stage does not look at its work item.
fetch_profile_unguarded(db, username, profile, t) ==
    IF profile = None
    THEN Raised(db, <<Call("github.get_user")>>)
    ELSE LET existing == get_user_subject(db.subjects, username)
             user == UserSubject(Some(Coalesce(profile[1].login, Some(username))[1]),
                                 profile[1].bio, None, <<>>,
                                 IF existing # None THEN existing[1].is_ghost ELSE FALSE)
             running == Status(db.work_items, "fetch_profile", "user", username,
                               "running", None, t)
         IN  Returned(Db(Status(running, "fetch_profile", "user", username,
                                "succeeded", Some([profile_found |-> TRUE]), t),
                         upsert_subject(db.subjects, "user", username, user, t),
                         db.links),
                      <<Call("github.get_user")>>)

\* fetch_profile(username); profile is what GitHubClient.get_user answers,
\* None when it raises.
fetch_profile(db, username, profile, t) ==
    IF _already_succeeded(db.work_items, "fetch_profile", "user", username)
    THEN Skipped(db)
    ELSE IF profile = None
    THEN Raised(db, <<Call("github.get_user")>>)
    ELSE LET existing == get_user_subject(db.subjects, username)
             user == UserSubject(Some(Coalesce(profile[1].login, Some(username))[1]),
                                 profile[1].bio, None, <<>>,
                                 IF existing # None THEN existing[1].is_ghost ELSE FALSE)
             running == Status(db.work_items, "fetch_profile", "user", username,
                               "running", None, t)
         IN  Returned(Db(Status(running, "fetch_profile", "user", username,
                                "succeeded", Some([profile_found |-> TRUE]), t),
                         upsert_subject(db.subjects, "user", username, user, t),
                         db.links),
                      <<Call("github.get_user")>>)

ACTIVITY_DAYS_THRESHOLD == 4

\* The loop of fetch_repos over client.list_repos(...): a repository with no
\* language, not pushed recently, or forked and not active, is dropped; the
\* others are upserted as lean subjects and linked.
RECURSIVE fetch_repos_listed(_, _, _, _)
fetch_repos_listed(acc, username, repos, t) ==
    IF repos = <<>> THEN acc
    ELSE LET repo == Head(repos)
             include_reason ==
                 IF ~repo.fork THEN Some("owned")
                 ELSE IF repo.days >= ACTIVITY_DAYS_THRESHOLD THEN Some("fork_active")
                 ELSE None
             user_commit_days == IF repo.fork THEN Some(repo.days) ELSE None
             next ==
                 IF repo.language = None \/ ~repo.recent \/ include_reason = None
                 THEN acc
                 ELSE [subjects |-> upsert_subject(acc.subjects, "repo", repo.full_name,
                                       RepoSubject(repo.full_name, repo.name,
                                                   repo.description, repo.language,
                                                   repo.pushed_at), t),
                       links |-> upsert_user_repo_link(acc.links, username,
                                       repo.full_name, include_reason[1],
                                       user_commit_days),
                       kept |-> Append(acc.kept, repo.full_name)]
         IN  fetch_repos_listed(next, username, Tail(repos), t)

\* The loop of fetch_repos over the contributed repositories.
RECURSIVE fetch_repos_contributed(_, _, _, _)
fetch_repos_contributed(acc, username, contributed, t) ==
    IF contributed = <<>> THEN acc
    ELSE LET meta == Head(contributed)
             seen_ids == {acc.kept[i] : i \in 1..Len(acc.kept)}
             next ==
                 IF \/ meta.full_name \in seen_ids
                    \/ ~meta.meta_ok
                    \/ meta.language = None
                    \/ ~meta.recent
                    \/ meta.days < ACTIVITY_DAYS_THRESHOLD
                 THEN acc
                 ELSE [subjects |-> upsert_subject(acc.subjects, "repo", meta.full_name,
                                       RepoSubject(meta.full_name, meta.name,
                                                   meta.description, meta.language,
                                                   meta.pushed_at), t),
                       links |-> upsert_user_repo_link(acc.links, username,
                                       meta.full_name, "contributed", Some(meta.days)),
                       kept |-> Append(acc.kept, meta.full_name)]
         IN  fetch_repos_contributed(next, username, Tail(contributed), t)

\* fetch_repos(username); repos is what client.list_repos answers (None when
\* it raises), contributed what the contribution windows yield.
fetch_repos(db, username, repos, contributed, t) ==
    IF _already_succeeded(db.work_items, "fetch_repos", "user", username)
    THEN Skipped(db)
    ELSE IF repos = None
    THEN Raised(db, <<Call("github.list_repos")>>)
    ELSE LET running == Status(db.work_items, "fetch_repos", "user", username,
                               "running", None, t)
             listed == fetch_repos_listed(
                           [subjects |-> db.subjects, links |-> db.links, kept |-> <<>>],
                           username, repos[1], t)
             kept == fetch_repos_contributed(listed, username, contributed, t)
         IN  Returned(Db(Status(running, "fetch_repos", "user", username, "succeeded",
                                Some([fetched |-> Len(kept.kept)]), t),
                         kept.subjects, kept.links),
                      <<Call("github.list_repos"), Call("github.list_contributed_repos")>>)

\* sorted(rows, key=get_github_timestamp, reverse=True), newest push first.
RECURSIVE SortByPushedAt(_)
SortByPushedAt(rows) ==
    IF rows = {} THEN <<>>
    ELSE LET first == CHOOSE r \in rows :
                          \A q \in rows : q.data.pushed_at[1] <= r.data.pushed_at[1]
         IN  <<first>> \o SortByPushedAt(rows \ {first})

\* get_user_repos(conn, username): the repo subjects linked to username with
\* the metadata of their links; None when a row has no push time (ValueError).
get_user_repos(subs, lnks, username) ==
    LET rows == {[subject_id |-> l.repo_id,
                  data |-> subs[<<"repo", l.repo_id>>].data,
                  updated_at |-> subs[<<"repo", l.repo_id>>].updated_at,
                  include_reason |-> l.include_reason,
                  user_commit_days |-> l.user_commit_days] :
                 l \in {x \in lnks : /\ x.username = username
                                     /\ <<"repo", x.repo_id>> \in DOMAIN subs}}
    IN  IF \E r \in rows : r.data.pushed_at = None THEN None
        ELSE Some(SortByPushedAt(rows))

\* select_highlighted_repos(username); nominees are the repositories for
\* which GitHub has a README and enough commit days of the user, answer is
\* the list of names parsed from the LLM response (None when the call or
\* the parse fails, or the response is empty).
select_highlighted_repos(db, username, nominees, answer, t) ==
    IF _already_succeeded(db.work_items, "select_highlighted_repos", "user", username)
    THEN Skipped(db)
    ELSE LET rows == get_user_repos(db.subjects, db.links, username)
         IN  IF rows = None THEN Raised(db, <<>>)
             ELSE LET IsNominee(r) == r.subject_id \in nominees
                      repos == SelectSeq(rows[1], IsNominee)
                      names == IF repos # <<>> /\ answer # None THEN answer[1] ELSE <<>>
                      urow == get_subject(db.subjects, "user", username)
                      ubase == IF urow # None THEN urow[1].data
                               ELSE UserSubject(None, None, None, <<>>, FALSE)
                      running == Status(db.work_items, "select_highlighted_repos",
                                        "user", username, "running", None, t)
                  IN  Returned(
                          Db(Status(running, "select_highlighted_repos", "user",
                                    username, "succeeded", Some([repos |-> names]), t),
                             upsert_subject(db.subjects, "user", username,
                                            [ubase EXCEPT !.highlighted_repos = names], t),
                             db.links),
                          (IF rows[1] # <<>> THEN <<Call("github.get_repo_readme")>> ELSE <<>>)
                          \o (IF repos # <<>> THEN <<Call("llm.chat")>> ELSE <<>>))

\* The names in the output of the succeeded select_highlighted_repos item.
HighlightedNames(w, username) ==
    LET row == get_work_item(w, "select_highlighted_repos", "user", username)
    IN  IF row # None /\ row[1].status = "succeeded" /\ row[1].output_json # None
        THEN row[1].output_json[1].repos
        ELSE <<>>

\* infer_user_theme(username); answer is the theme parsed from the LLM
\* response (None when the call or the parse fails).
infer_user_theme(db, username, answer, t) ==
    IF _already_succeeded(db.work_items, "infer_user_theme", "user", username)
    THEN Skipped(db)
    ELSE LET highlights == HighlightedNames(db.work_items, username)
             kept_rows == get_user_repos(db.subjects, db.links, username)
         IN  IF kept_rows = None THEN Raised(db, <<>>)
             ELSE LET kept_names == {kept_rows[1][i].data.name : i \in 1..Len(kept_rows[1])}
                      IsKept(n) == n \in kept_names
                      subset == SelectSeq(highlights, IsKept)
                      theme == IF subset # <<>> /\ answer # None THEN answer[1] ELSE ""
                      existing == get_user_subject(db.subjects, username)
                      user == IF existing # None THEN existing[1]
                              ELSE UserSubject(Some(username), None, None, <<>>, FALSE)
                      running == Status(db.work_items, "infer_user_theme", "user",
                                        username, "running", None, t)
                  IN  Returned(
                          Db(Status(running, "infer_user_theme", "user", username,
                                    "succeeded", Some([theme |-> theme]), t),
                             upsert_subject(db.subjects, "user", username,
                                            [user EXCEPT !.theme = Some(theme),
                                                         !.highlighted_repos = highlights], t),
                             db.links),
                          IF subset # <<>> THEN <<Call("llm.chat")>> ELSE <<>>)

\* RepoSubject(id=repo_id, name=repo_id.split("/")[-1])
MinimalRepoSubject(repo_id) ==
    RepoSubject(repo_id, RepoIdName(repo_id), None, None, None)

\* enhance_repo_media(repo_id); media is what _extract_repo_media_data
\* returns (its link), None when it raises.
enhance_repo_media(db, repo_id, media, t) ==
    IF _already_succeeded(db.work_items, "enhance_repo_media", "repo", repo_id)
    THEN Skipped(db)
    ELSE LET running == Status(db.work_items, "enhance_repo_media", "repo", repo_id,
                               "running", None, t)
             existing == get_repo_subject(db.subjects, repo_id)
             repo == IF existing # None THEN existing[1] ELSE MinimalRepoSubject(repo_id)
         IN  IF repo_id \notin DOMAIN RepoIdSplit
             THEN Returned(Db(Status(running, "enhance_repo_media", "repo", repo_id,
                                     "failed", None, t),
                              db.subjects, db.links), <<>>)
             ELSE IF media = None
             THEN Raised(db, <<Call("github.get_repo_readme")>>)
             ELSE Returned(Db(Status(running, "enhance_repo_media", "repo", repo_id,
                                     "succeeded", Some([link |-> media[1].link]), t),
                              upsert_subject(db.subjects, "repo", repo_id,
                                             [repo EXCEPT !.link = media[1].link], t),
                              db.links),
                           <<Call("github.get_repo_readme")>>)

\* generate_repo_blurb(repo_id); desc is the blurb the analysis and the LLM
\* produce, "" when either fails or the prompt is too long.
generate_repo_blurb(db, repo_id, desc, t) ==
    IF _already_succeeded(db.work_items, "generate_repo_blurb", "repo", repo_id)
    THEN Skipped(db)
    ELSE LET running == Status(db.work_items, "generate_repo_blurb", "repo", repo_id,
                               "running", None, t)
             existing == get_repo_subject(db.subjects, repo_id)
             repo == IF existing # None THEN existing[1] ELSE MinimalRepoSubject(repo_id)
         IN  IF repo_id \notin DOMAIN RepoIdSplit
             THEN Returned(Db(Status(running, "generate_repo_blurb", "repo", repo_id,
                                     "failed", None, t),
                              db.subjects, db.links), <<>>)
             ELSE Returned(Db(Status(running, "generate_repo_blurb", "repo", repo_id,
                                     "succeeded",
                                     Some([description_len |-> Len(desc)]), t),
                              IF desc # ""
                              THEN upsert_subject(db.subjects, "repo", repo_id,
                                       [repo EXCEPT !.generated_description = Some(desc)], t)
                              ELSE db.subjects,
                              db.links),
                           <<Call("repo_analyzer.clone_and_analyze_repo"), Call("llm.chat")>>)

\* The common body of extract_repo_emphasis and extract_repo_keywords; answer
\* is the parsed LLM response: [ok |-> TRUE, data |-> list] or [ok |-> FALSE,
\* reason |-> the error].
extract_repo_list(db, kind, repo_id, answer, lengths, t) ==
    IF _already_succeeded(db.work_items, kind, "repo", repo_id)
    THEN Skipped(db)
    ELSE LET running == Status(db.work_items, kind, "repo", repo_id, "running", None, t)
             repo == get_repo_subject(db.subjects, repo_id)
             Failed(reason, calls) ==
                 Returned(Db(Status(running, kind, "repo", repo_id, "failed",
                                    Some([reason |-> reason]), t),
                             db.subjects, db.links), calls)
         IN  IF repo = None THEN Failed("no_subject", <<>>)
             ELSE IF repo[1].generated_description \in {None, Some("")}
             THEN Failed("no_generated_description", <<>>)
             ELSE IF ~answer.ok THEN Failed(answer.reason, <<Call("llm.chat")>>)
             ELSE IF Len(answer.data) \notin lengths
             THEN Failed("array_length_out_of_range", <<Call("llm.chat")>>)
             ELSE Returned(
                      Db(Status(running, kind, "repo", repo_id, "succeeded",
                                Some([items |-> answer.data, count |-> Len(answer.data)]), t),
                         upsert_subject(db.subjects, "repo", repo_id,
                             IF kind = "extract_repo_emphasis"
                             THEN [repo[1] EXCEPT !.emphasis = Some(answer.data)]
                             ELSE [repo[1] EXCEPT !.keywords = Some(answer.data)], t),
                         db.links),
                      <<Call("llm.chat")>>)

\* extract_repo_emphasis(repo_id): a list of any length is accepted.
extract_repo_emphasis(db, repo_id, answer, t) ==
    extract_repo_list(db, "extract_repo_emphasis", repo_id, answer, Nat, t)

\* if not (1 <= len(data) <= 4): raise ValueError("array_length_out_of_range")
extract_repo_keywords(db, repo_id, answer, t) ==
    extract_repo_list(db, "extract_repo_keywords", repo_id, answer, 1..4, t)

\* extract_repo_kind(repo_id); phrase is the stripped LLM response, "" when
\* the call fails.
extract_repo_kind(db, repo_id, phrase, t) ==
    IF _already_succeeded(db.work_items, "extract_repo_kind", "repo", repo_id)
    THEN Skipped(db)
    ELSE LET running == Status(db.work_items, "extract_repo_kind", "repo", repo_id,
                               "running", None, t)
             existing == get_repo_subject(db.subjects, repo_id)
             repo == IF existing # None THEN existing[1] ELSE MinimalRepoSubject(repo_id)
         IN  Returned(Db(Status(running, "extract_repo_kind", "repo", repo_id,
                                "succeeded", Some([kind |-> phrase]), t),
                         upsert_subject(db.subjects, "repo", repo_id,
                                        [repo EXCEPT !.kind = Some(phrase)], t),
                         db.links),
                      <<Call("llm.chat")>>)

----------------------------------------------------------------------------
(* Embedding: embeddings.py and the embed stages of tasks.py.  A text is   *)
(* the sequence of its lines; an embedding is known by the text it is of.  *)

\* str.strip() on the texts of the model.
Strip(s) == IF s = "cli tool " THEN "cli tool" ELSE s

\* format_repo_for_embedding(repo): the present, non-empty fields among
\* name, description, generated_description and language, one per line.
format_repo_for_embedding(repo) ==
    (IF repo.name # "" THEN <<repo.name>> ELSE <<>>)
    \o (IF repo.description \notin {None, Some("")}
        THEN <<Strip(repo.description[1])>> ELSE <<>>)
    \o (IF repo.generated_description \notin {None, Some("")}
        THEN <<Strip(repo.generated_description[1])>> ELSE <<>>)
    \o (IF repo.language \notin {None, Some("")} THEN <<repo.language[1]>> ELSE <<>>)

\* The block of the highlighted repositories in format_user_for_embedding.
RECURSIVE format_highlighted_repos(_)
format_highlighted_repos(repos) ==
    IF repos = <<>> THEN <<>>
    ELSE LET repo_parts == format_repo_for_embedding(Head(repos))
         IN  (IF repo_parts # <<>> THEN repo_parts \o <<"">> ELSE <<>>)
             \o format_highlighted_repos(Tail(repos))

\* format_user_for_embedding(user, highlighted_repos)
format_user_for_embedding(user, highlighted_repos) ==
    (IF user.login \notin {None, Some("")} THEN <<user.login[1]>> ELSE <<>>)
    \o (IF user.bio \notin {None, Some("")} THEN <<Strip(user.bio[1])>> ELSE <<>>)
    \o (IF highlighted_repos # <<>>
        THEN <<"", "user's highlighted repositories:">>
             \o format_highlighted_repos(highlighted_repos)
        ELSE <<>>)

\* compute_embedding_hash(text): SHA-256, which tells any two texts of the
\* model apart.
compute_embedding_hash(text) == [sha256 |-> text]

EMBEDDING_DIM == 4096

\* The vector the provider answers for a text.
EmbeddingOf(text) == [of |-> text, dim |-> EMBEDDING_DIM]

\* UPDATE subjects SET embedding = %s WHERE subject_type=%s AND subject_id=%s
update_embedding(subs, subject_type, subject_id, embedding) ==
    IF <<subject_type, subject_id>> \in DOMAIN subs
    THEN [subs EXCEPT ![<<subject_type, subject_id>>].embedding = Some(embedding)]
    ELSE subs

\* A mutant of CacheHit: a succeeded work item hits whatever hash it stores.
CacheHit_any_hash(w, kind, subject_type, subject_id, content_hash) ==
    LET work_item == get_work_item(w, kind, subject_type, subject_id)
    IN  /\ work_item # None
        /\ work_item[1].status = "succeeded"
        /\ work_item[1].output_json # None

\* A mutant of CacheHit: nothing hits.
CacheHit_never(w, kind, subject_type, subject_id, content_hash) == FALSE

\* A mutant of CacheHit: a running work item hits too, as if another run
\* were at work on it.
CacheHit_or_running(w, kind, subject_type, subject_id, content_hash) ==
    LET work_item == get_work_item(w, kind, subject_type, subject_id)
    IN  /\ work_item # None
        /\ \/ work_item[1].status = "running"
           \/ /\ work_item[1].status = "succeeded"
              /\ work_item[1].output_json # None
              /\ "content_hash" \in DOMAIN work_item[1].output_json[1]
              /\ work_item[1].output_json[1].content_hash = content_hash

\* The work item is succeeded and its output carries content_hash.
CacheHit(w, kind, subject_type, subject_id, content_hash) ==
    LET work_item == get_work_item(w, kind, subject_type, subject_id)
    IN  /\ work_item # None
        /\ work_item[1].status = "succeeded"
        /\ work_item[1].output_json # None
        /\ "content_hash" \in DOMAIN work_item[1].output_json[1]
        /\ work_item[1].output_json[1].content_hash = content_hash

BATCH_SIZE == 20

\* A mutant of repos_to_embed: the stored content hash is not looked at.
RECURSIVE repos_to_embed_no_cache(_, _, _, _)
repos_to_embed_no_cache(db, repo_ids, subject_type, work_kind) ==
    IF repo_ids = <<>> THEN <<>>
    ELSE LET repo_id == Head(repo_ids)
             repo == get_subject(db.subjects, subject_type, repo_id)
             embedding_content == format_repo_for_embedding(repo[1].data)
             rest == repos_to_embed_no_cache(db, Tail(repo_ids), subject_type, work_kind)
         IN  IF repo = None THEN rest
             ELSE <<[repo_id |-> repo_id, content |-> embedding_content,
                     content_hash |-> compute_embedding_hash(embedding_content)]>>
                  \o rest

\* The first pass of _embed_repos_batch_generic: the repositories of
\* repo_ids that have a subject and no cache hit, with text and hash.
RECURSIVE repos_to_embed(_, _, _, _)
repos_to_embed(db, repo_ids, subject_type, work_kind) ==
    IF repo_ids = <<>> THEN <<>>
    ELSE LET repo_id == Head(repo_ids)
             repo == get_subject(db.subjects, subject_type, repo_id)
             embedding_content == format_repo_for_embedding(repo[1].data)
             content_hash == compute_embedding_hash(embedding_content)
             rest == repos_to_embed(db, Tail(repo_ids), subject_type, work_kind)
         IN  IF repo = None THEN rest
             ELSE IF CacheHit(db.work_items, work_kind, subject_type, repo_id, content_hash)
             THEN rest
             ELSE <<[repo_id |-> repo_id, content |-> embedding_content,
                     content_hash |-> content_hash]>> \o rest

\* A mutant of mark_batch: only the first item of the batch is marked.
mark_batch_first_only(w, batch, subject_type, work_kind, status, t) ==
    IF batch = <<>> THEN w
    ELSE Status(w, work_kind, subject_type, Head(batch).repo_id, status,
                IF status = "running" THEN None
                ELSE IF status = "failed" THEN Some([reason |-> "batch_api_error"])
                ELSE Some([content_hash |-> Head(batch).content_hash,
                           embedding_dim |-> EMBEDDING_DIM]), t)

\* set_work_status(conn, work_kind, subject_type, repo_id, status, output)
\* for every item of a batch: no output with running, the reason with
\* failed, the content hash and the dimension with succeeded.  (The test
\* marked = w changes nothing: the rows of one upsert are evaluated before
\* the next, which keeps the evaluation of a long batch shallow.)
RECURSIVE mark_batch(_, _, _, _, _, _)
mark_batch(w, batch, subject_type, work_kind, status, t) ==
    IF batch = <<>> THEN w
    ELSE LET item == Head(batch)
             output_json ==
                 CASE status = "running" -> None
                   [] status = "failed" -> Some([reason |-> "batch_api_error"])
                   [] OTHER -> Some([content_hash |-> item.content_hash,
                                     embedding_dim |-> EMBEDDING_DIM])
             marked == Status(w, work_kind, subject_type, item.repo_id, status,
                              output_json, t)
         IN  IF marked = w
             THEN mark_batch(w, Tail(batch), subject_type, work_kind, status, t)
             ELSE mark_batch(marked, Tail(batch), subject_type, work_kind, status, t)

\* The embeddings of a batch stored on their subjects.
RECURSIVE store_batch(_, _, _)
store_batch(subs, batch, subject_type) ==
    IF batch = <<>> THEN subs
    ELSE store_batch(update_embedding(subs, subject_type, Head(batch).repo_id,
                                      EmbeddingOf(Head(batch).content)),
                     Tail(batch), subject_type)

\* The loop of _embed_repos_batch_generic over the batches of todo; n is the
\* number of the batch, failing the batches whose provider call raises.
RECURSIVE embed_batches(_, _, _, _, _, _, _)
embed_batches(acc, todo, subject_type, work_kind, failing, n, t) ==
    IF todo = <<>> THEN acc
    ELSE LET size == IF Len(todo) < BATCH_SIZE THEN Len(todo) ELSE BATCH_SIZE
             batch == SubSeq(todo, 1, size)
             running == mark_batch(acc.db.work_items, batch, subject_type, work_kind,
                                   "running", t)
             call == [api |-> "embeddings.get_embeddings_batch",
                      ids |-> [i \in 1..size |-> batch[i].repo_id]]
             next ==
                 IF n \in failing
                 THEN [db |-> Db(mark_batch(running, batch, subject_type, work_kind,
                                            "failed", t),
                                 acc.db.subjects, acc.db.links),
                       calls |-> Append(acc.calls, call)]
                 ELSE [db |-> Db(mark_batch(running, batch, subject_type, work_kind,
                                            "succeeded", t),
                                 store_batch(acc.db.subjects, batch, subject_type),
                                 acc.db.links),
                       calls |-> Append(acc.calls, call)]
         IN  embed_batches(next, SubSeq(todo, size + 1, Len(todo)), subject_type,
                           work_kind, failing, n + 1, t)

\* _embed_repos_batch_generic(repo_ids, subject_type, work_kind, ...)
_embed_repos_batch_generic(db, repo_ids, subject_type, work_kind, failing, t) ==
    LET todo == repos_to_embed(db, repo_ids, subject_type, work_kind)
        done == embed_batches([db |-> db, calls |-> <<>>], todo, subject_type,
                              work_kind, failing, 1, t)
    IN  Returned(done.db, done.calls)

\* embed_repos_batch(username, repo_ids)
embed_repos_batch(db, username, repo_ids, failing, t) ==
    _embed_repos_batch_generic(db, repo_ids, "repo", "embed_repo", failing, t)

\* repo_by_name[repo_name] in embed_user_profile: the last of the rows with
\* that name.
RowByName(rows, repo_name) ==
    LET hits == {i \in 1..Len(rows) : rows[i].data.name = repo_name}
    IN  rows[CHOOSE i \in hits : \A j \in hits : j <= i]

\* The repo subjects of the highlighted names that the user is linked to.
RECURSIVE highlighted_subjects(_, _)
highlighted_subjects(rows, highlighted_names) ==
    IF highlighted_names = <<>> THEN <<>>
    ELSE (IF \E i \in 1..Len(rows) : rows[i].data.name = Head(highlighted_names)
          THEN <<RowByName(rows, Head(highlighted_names)).data>> ELSE <<>>)
         \o highlighted_subjects(rows, Tail(highlighted_names))

\* The text embed_user_profile embeds: the user with the subjects of the
\* highlighted repositories.
user_embedding_content(db, username) ==
    format_user_for_embedding(
        get_user_subject(db.subjects, username)[1],
        highlighted_subjects(get_user_repos(db.subjects, db.links, username)[1],
                             HighlightedNames(db.work_items, username)))

\* embed_user_profile(username); provider_ok tells whether get_embedding
\* answers or raises.
embed_user_profile(db, username, provider_ok, t) ==
    LET user == get_user_subject(db.subjects, username)
        highlighted_names == HighlightedNames(db.work_items, username)
        repo_rows == get_user_repos(db.subjects, db.links, username)
        embedding_content == user_embedding_content(db, username)
        content_hash == compute_embedding_hash(embedding_content)
        call == [api |-> "embeddings.get_embedding", ids |-> <<username>>]
        With(status, output_json) ==
            Status(db.work_items, "embed_user_profile", "user", username, status,
                   output_json, t)
        running == With("running", None)
        After(status, output_json) ==
            Status(running, "embed_user_profile", "user", username, status,
                   output_json, t)
    IN  IF user = None
        THEN Returned(Db(With("failed", Some([reason |-> "no_subject"])),
                         db.subjects, db.links), <<>>)
        ELSE IF highlighted_names = <<>>
        THEN Returned(Db(With("succeeded",
                              Some([reason |-> "no_highlights_skip", embedding_dim |-> 0])),
                         db.subjects, db.links), <<>>)
        ELSE IF repo_rows = None THEN Raised(db, <<>>)
        ELSE IF CacheHit(db.work_items, "embed_user_profile", "user", username,
                         content_hash)
        THEN Skipped(db)
        ELSE IF ~provider_ok
        THEN Returned(Db(After("failed", Some([reason |-> "provider_error"])),
                         db.subjects, db.links), <<call>>)
        ELSE Returned(Db(After("succeeded",
                              Some([content_hash |-> content_hash,
                                    embedding_dim |-> EMBEDDING_DIM])),
                         update_embedding(db.subjects, "user", username,
                                          EmbeddingOf(embedding_content)),
                         db.links),
                      <<call>>)

----------------------------------------------------------------------------
(* The assets of assets.py: the work item kind, the scope and the upstream *)
(* assets of each.                                                         *)

\* A mutant of Assets: the deferred assets declare their data dependencies
\* only, not the feed build.
Assets_data_deps_only ==
    [fetch_profile_asset |->
        [kind |-> "fetch_profile", scope |-> "user", deps |-> {}],
     fetch_repos_asset |->
        [kind |-> "fetch_repos", scope |-> "user", deps |-> {}],
     select_highlighted_repos_asset |->
        [kind |-> "select_highlighted_repos", scope |-> "user",
         deps |-> {"fetch_repos_asset"}],
     generate_repo_blurb_asset |->
        [kind |-> "generate_repo_blurb", scope |-> "repo",
         deps |-> {"select_highlighted_repos_asset"}],
     embed_repo_asset |->
        [kind |-> "embed_repo", scope |-> "repo",
         deps |-> {"generate_repo_blurb_asset"}],
     embed_user_profile_asset |->
        [kind |-> "embed_user_profile", scope |-> "user",
         deps |-> {"embed_repo_asset"}],
     build_for_you_trending_asset |->
        [kind |-> "build_for_you_trending", scope |-> "user",
         deps |-> {"embed_user_profile_asset"}],
     enhance_repo_media_asset |->
        [kind |-> "enhance_repo_media", scope |-> "repo",
         deps |-> {"fetch_repos_asset"}],
     infer_user_theme_asset |->
        [kind |-> "infer_user_theme", scope |-> "user",
         deps |-> {"select_highlighted_repos_asset"}],
     extract_repo_emphasis_asset |->
        [kind |-> "extract_repo_emphasis", scope |-> "repo",
         deps |-> {"generate_repo_blurb_asset"}],
     extract_repo_keywords_asset |->
        [kind |-> "extract_repo_keywords", scope |-> "repo",
         deps |-> {"generate_repo_blurb_asset"}],
     extract_repo_kind_asset |->
        [kind |-> "extract_repo_kind", scope |-> "repo",
         deps |-> {"generate_repo_blurb_asset"}]]

Assets ==
    [fetch_profile_asset |->
        [kind |-> "fetch_profile", scope |-> "user", deps |-> {}],
     fetch_repos_asset |->
        [kind |-> "fetch_repos", scope |-> "user", deps |-> {}],
     select_highlighted_repos_asset |->
        [kind |-> "select_highlighted_repos", scope |-> "user",
         deps |-> {"fetch_repos_asset"}],
     generate_repo_blurb_asset |->
        [kind |-> "generate_repo_blurb", scope |-> "repo",
         deps |-> {"select_highlighted_repos_asset"}],
     embed_repo_asset |->
        [kind |-> "embed_repo", scope |-> "repo",
         deps |-> {"generate_repo_blurb_asset"}],
     embed_user_profile_asset |->
        [kind |-> "embed_user_profile", scope |-> "user",
         deps |-> {"embed_repo_asset"}],
     build_for_you_trending_asset |->
        [kind |-> "build_for_you_trending", scope |-> "user",
         deps |-> {"embed_user_profile_asset"}],
     enhance_repo_media_asset |->
        [kind |-> "enhance_repo_media", scope |-> "repo",
         deps |-> {"fetch_repos_asset", "build_for_you_trending_asset"}],
     infer_user_theme_asset |->
        [kind |-> "infer_user_theme", scope |-> "user",
         deps |-> {"select_highlighted_repos_asset", "build_for_you_trending_asset"}],
     extract_repo_emphasis_asset |->
        [kind |-> "extract_repo_emphasis", scope |-> "repo",
         deps |-> {"generate_repo_blurb_asset", "build_for_you_trending_asset"}],
     extract_repo_keywords_asset |->
        [kind |-> "extract_repo_keywords", scope |-> "repo",
         deps |-> {"generate_repo_blurb_asset", "build_for_you_trending_asset"}],
     extract_repo_kind_asset |->
        [kind |-> "extract_repo_kind", scope |-> "repo",
         deps |-> {"generate_repo_blurb_asset", "build_for_you_trending_asset"}]]

\* A mutant of Downstream: only the assets that depend on the start
\* directly are selected with it.
Downstream_direct(selected) ==
    selected \cup {a \in DOMAIN Assets : Assets[a].deps \cap selected # {}}

\* AssetSelection.keys(start).downstream(): start and every asset that
\* depends on it, directly or not.
RECURSIVE Downstream(_)
Downstream(selected) ==
    LET more == selected \cup {a \in DOMAIN Assets : Assets[a].deps \cap selected # {}}
    IN  IF more = selected THEN selected ELSE Downstream(more)

\* The kinds of one scope that restart_from(start) resets.
KindsToReset(start, scope) ==
    {Assets[a].kind : a \in {x \in Downstream({start}) : Assets[x].scope = scope}}

----------------------------------------------------------------------------
(* The handlers of api.py that reset or delete.                            *)

\* subject_id LIKE 'username/%'
OwnedBy(repo_id, username) ==
    repo_id \in DOMAIN RepoIdSplit /\ RepoIdSplit[repo_id][1] = username

\* delete_user_repo_subjects(conn, username): the links of the user and the
\* repo subjects the user owns.
delete_user_repo_subjects(db, username) ==
    LET gone == {k \in DOMAIN db.subjects : k[1] = "repo" /\ OwnedBy(k[2], username)}
    IN  Db(db.work_items,
           [k \in DOMAIN db.subjects \ gone |-> db.subjects[k]],
           {l \in db.links : l.username # username})

\* restart(username): both resets with every kind, then
\* delete_user_repo_subjects, then commit.
restart(db, username) ==
    delete_user_repo_subjects(
        Db(reset_user_repo_work_items_to_pending(
               reset_user_work_items_to_pending(db.work_items, username, USER_KINDS),
               db.links, username, REPO_KINDS),
           db.subjects, db.links),
        username)

\* The resets of restart_from(username): each reset is called only with a
\* non-empty list of kinds.
restart_from_reset(db, username, user_kinds, repo_kinds) ==
    LET w1 == IF user_kinds # {}
              THEN reset_user_work_items_to_pending(db.work_items, username, user_kinds)
              ELSE db.work_items
        w2 == IF repo_kinds # {}
              THEN reset_user_repo_work_items_to_pending(w1, db.links, username, repo_kinds)
              ELSE w1
    IN  Db(w2, db.subjects, db.links)

\* delete_user_completely(conn, username)
delete_user_completely(db, username) ==
    LET linked == {l.repo_id : l \in {x \in db.links : x.username = username}}
        gone == {k \in DOMAIN db.subjects :
                    \/ k[1] = "repo" /\ OwnedBy(k[2], username)
                    \/ k = <<"user", username>>}
    IN  Db({r \in db.work_items :
               /\ ~(r.subject_type = "user" /\ r.subject_id = username)
               /\ ~(r.subject_type = "repo" /\ r.subject_id \in linked)},
           [k \in DOMAIN db.subjects \ gone |-> db.subjects[k]],
           {l \in db.links : l.username # username})

----------------------------------------------------------------------------
(* The stages invoked one at a time, in any order, with the resets and the *)
(* delete in between.  What the providers answer is chosen from the sets   *)
(* below.                                                                  *)

GhProfile == [login |-> Some("alice"), bio |-> Some("dev")]

GhApp ==
    [full_name |-> "alice/app", name |-> "app", description |-> Some("cli tool "),
     language |-> Some("Python"), fork |-> FALSE, recent |-> TRUE, days |-> 0,
     pushed_at |-> Some(2)]

GhLib ==
    [full_name |-> "bob/lib", name |-> "lib", description |-> None,
     language |-> Some("Go"), meta_ok |-> TRUE, recent |-> TRUE, days |-> 5,
     pushed_at |-> Some(1)]

Profiles == {None, Some(GhProfile)}

Listings ==
    {[repos |-> None, contributed |-> <<>>],
     [repos |-> Some(<<>>), contributed |-> <<>>],
     [repos |-> Some(<<GhApp>>), contributed |-> <<GhLib>>]}

Selections ==
    {[nominees |-> {}, answer |-> None],
     [nominees |-> {"alice/app"}, answer |-> None],
     [nominees |-> {"alice/app"}, answer |-> Some(<<"app">>)]}

Themes == {None, Some("builder")}

Medias == {None, Some([link |-> Some("https://app.dev")])}

Blurbs == {"", "a cli tool"}

Lists ==
    {[ok |-> FALSE, reason |-> "not_array"],
     [ok |-> TRUE, data |-> <<>>],
     [ok |-> TRUE, data |-> <<"Python">>]}

Phrases == {"", "cli tool"}

StageUsers == {"alice"}

StageRepos == {"alice/app"}

EmbedArgs == {<<"alice/app">>, <<"alice/app", "bob/lib">>}

EmptyDb == Db({}, EmptyFn, {})

\* The database as earlier invocations left it: empty, after the profile
\* was fetched, after the repositories were fetched, highlighted and
\* blurbed, and after both embed stages.
SeedProfile == fetch_profile(EmptyDb, "alice", Some(GhProfile), 0).db

SeedBlurb ==
    generate_repo_blurb(
        select_highlighted_repos(
            fetch_repos(SeedProfile, "alice", Some(<<GhApp>>), <<GhLib>>, 0).db,
            "alice", {"alice/app"}, Some(<<"app">>), 0).db,
        "alice/app", "a cli tool", 0).db

SeedEmbedded ==
    embed_user_profile(
        embed_repos_batch(SeedBlurb, "alice", <<"alice/app">>, {}, 0).db,
        "alice", TRUE, 0).db

Seeds == {EmptyDb, SeedProfile, SeedBlurb, SeedEmbedded}

Init ==
    /\ now = 1
    /\ \E db \in Seeds :
          /\ work_items = db.work_items
          /\ subjects = db.subjects
          /\ links = db.links
    /\ tx = [c \in Conns |-> NoTx]
    /\ recommendations = EmptyFn
    /\ run = NoRun
    /\ last = [op |-> "init"]

\* The committed database.
Database == Db(work_items, subjects, links)

\* The status of a work item, "absent" when it has no row.
StatusOf(w, kind, subject_type, subject_id) ==
    LET row == get_work_item(w, kind, subject_type, subject_id)
    IN  IF row = None THEN "absent" ELSE row[1].status

\* One invocation of a stage with result res, for the subjects ids.
Invoke(kind, subject_type, ids, res) ==
    /\ now < MaxTime
    /\ now' = now + 1
    /\ work_items' = res.db.work_items
    /\ subjects' = res.db.subjects
    /\ links' = res.db.links
    /\ last' = [op |-> "stage", kind |-> kind, subject_type |-> subject_type,
                ids |-> ids, outcome |-> res.outcome, calls |-> res.calls,
                before |-> [i \in 1..Len(ids) |->
                               StatusOf(work_items, kind, subject_type, ids[i])]]
    /\ UNCHANGED <<tx, recommendations, run>>

FetchProfile(username, profile) ==
    Invoke("fetch_profile", "user", <<username>>,
           fetch_profile(Database, username, profile, now))

FetchRepos(username, listing) ==
    Invoke("fetch_repos", "user", <<username>>,
           fetch_repos(Database, username, listing.repos, listing.contributed, now))

SelectHighlightedRepos(username, selection) ==
    Invoke("select_highlighted_repos", "user", <<username>>,
           select_highlighted_repos(Database, username, selection.nominees,
                                    selection.answer, now))

InferUserTheme(username, answer) ==
    Invoke("infer_user_theme", "user", <<username>>,
           infer_user_theme(Database, username, answer, now))

EnhanceRepoMedia(repo_id, media) ==
    Invoke("enhance_repo_media", "repo", <<repo_id>>,
           enhance_repo_media(Database, repo_id, media, now))

GenerateRepoBlurb(repo_id, desc) ==
    Invoke("generate_repo_blurb", "repo", <<repo_id>>,
           generate_repo_blurb(Database, repo_id, desc, now))

EmbedReposBatch(username, repo_ids, failing) ==
    Invoke("embed_repo", "repo", repo_ids,
           embed_repos_batch(Database, username, repo_ids, failing, now))

EmbedUserProfile(username, provider_ok) ==
    Invoke("embed_user_profile", "user", <<username>>,
           embed_user_profile(Database, username, provider_ok, now))

ExtractRepoEmphasis(repo_id, answer) ==
    Invoke("extract_repo_emphasis", "repo", <<repo_id>>,
           extract_repo_emphasis(Database, repo_id, answer, now))

ExtractRepoKeywords(repo_id, answer) ==
    Invoke("extract_repo_keywords", "repo", <<repo_id>>,
           extract_repo_keywords(Database, repo_id, answer, now))

ExtractRepoKind(repo_id, phrase) ==
    Invoke("extract_repo_kind", "repo", <<repo_id>>,
           extract_repo_kind(Database, repo_id, phrase, now))

\* A handler that resets or deletes and commits db.
Admin(op, username, kinds, db) ==
    /\ now < MaxTime
    /\ now' = now + 1
    /\ work_items' = db.work_items
    /\ subjects' = db.subjects
    /\ links' = db.links
    /\ last' = [op |-> op, username |-> username, kinds |-> kinds]
    /\ UNCHANGED <<tx, recommendations, run>>

Restart(username) ==
    Admin("reset", username, USER_KINDS \cup REPO_KINDS, restart(Database, username))

RestartFrom(username, start) ==
    Admin("reset", username, KindsToReset(start, "user") \cup KindsToReset(start, "repo"),
          restart_from_reset(Database, username, KindsToReset(start, "user"),
                             KindsToReset(start, "repo")))

DeleteUser(username) ==
    Admin("delete", username, {}, delete_user_completely(Database, username))

Next ==
    \/ \E u \in StageUsers, p \in Profiles : FetchProfile(u, p)
    \/ \E u \in StageUsers, l \in Listings : FetchRepos(u, l)
    \/ \E u \in StageUsers, s \in Selections : SelectHighlightedRepos(u, s)
    \/ \E u \in StageUsers, a \in Themes : InferUserTheme(u, a)
    \/ \E r \in StageRepos, m \in Medias : EnhanceRepoMedia(r, m)
    \/ \E r \in StageRepos, d \in Blurbs : GenerateRepoBlurb(r, d)
    \/ \E u \in StageUsers, ids \in EmbedArgs, f \in {{}, {1}} : EmbedReposBatch(u, ids, f)
    \/ \E u \in StageUsers, ok \in BOOLEAN : EmbedUserProfile(u, ok)
    \/ \E r \in StageRepos, a \in Lists : ExtractRepoEmphasis(r, a)
    \/ \E r \in StageRepos, a \in Lists : ExtractRepoKeywords(r, a)
    \/ \E r \in StageRepos, p \in Phrases : ExtractRepoKind(r, p)
    \/ \E u \in StageUsers : Restart(u)
    \/ \E u \in StageUsers, a \in DOMAIN Assets : RestartFrom(u, a)
    \/ \E u \in StageUsers : DeleteUser(u)

Spec == Init /\ [][Next]_vars

----------------------------------------------------------------------------
(* Properties of the stages.                                               *)

\* The stages that begin with the _already_succeeded check.
GuardedKinds == (USER_KINDS \cup REPO_KINDS) \ {"embed_repo", "embed_user_profile"}

\* The last operation was an invocation of the same stage for subject id.
JustInvoked(kind, subject_type, id) ==
    /\ last.op = "stage"
    /\ last.kind = kind
    /\ last.subject_type = subject_type
    /\ \E i \in 1..Len(last.ids) : last.ids[i] = id

\* C1: when a stage is invoked for a key whose work item is succeeded, and
\* either the stage is one of those guarded by the succeeded check or the
\* previous operation was an invocation of the same stage for the same key
\* (so its inputs are unchanged and no reset came in between), the
\* invocation makes no provider call for that key and leaves the output of
\* the work item unchanged.
C1_Idempotent ==
    [][last'.op = "stage" =>
        \A id \in {last'.ids[i] : i \in 1..Len(last'.ids)} :
            (/\ _already_succeeded(work_items, last'.kind, last'.subject_type, id)
             /\ \/ last'.kind \in GuardedKinds
                \/ JustInvoked(last'.kind, last'.subject_type, id))
            => /\ IF last'.kind = "embed_repo"
                  THEN \A j \in 1..Len(last'.calls) :
                          \A n \in 1..Len(last'.calls[j].ids) :
                              last'.calls[j].ids[n] # id
                  ELSE last'.calls = <<>>
               /\ _already_succeeded(work_items', last'.kind, last'.subject_type, id)
               /\ get_work_item(work_items', last'.kind, last'.subject_type, id)[1].output_json
                  = get_work_item(work_items, last'.kind, last'.subject_type, id)[1].output_json]_vars

\* A guarded stage found its item succeeded, with an output, and skipped.
C1_Witness ==
    /\ last.op = "stage"
    /\ last.outcome = "skipped"
    /\ last.before[1] = "succeeded"
    /\ get_work_item(work_items, last.kind, last.subject_type,
                     last.ids[1])[1].output_json # None

\* The embed stage would leave the succeeded item r alone in the database
\* db: the subject is missing (embed_repo) or the stored content hash is
\* that of its text.
StillCached(db, r) ==
    IF r.kind = "embed_repo"
    THEN \/ get_subject(db.subjects, "repo", r.subject_id) = None
         \/ CacheHit(db.work_items, "embed_repo", "repo", r.subject_id,
                     compute_embedding_hash(format_repo_for_embedding(
                         get_subject(db.subjects, "repo", r.subject_id)[1].data)))
    ELSE /\ get_user_subject(db.subjects, r.subject_id) # None
         /\ HighlightedNames(db.work_items, r.subject_id) # <<>>
         /\ \/ get_user_repos(db.subjects, db.links, r.subject_id) = None
            \/ CacheHit(db.work_items, "embed_user_profile", "user", r.subject_id,
                        compute_embedding_hash(
                            user_embedding_content(db, r.subject_id)))

LinkedRepos(lnks, username) == {l.repo_id : l \in {x \in lnks : x.username = username}}

\* C5: a reset of kinds K for a user leaves every existing work item of
\* those kinds, of the user or of a repository linked to the user, pending
\* with no output and no processed_at; and an invocation of a stage whose
\* work item is pending is not skipped, sends the subject to the provider
\* again when it is an embed stage with its subject present, and when it
\* leaves the item succeeded the item has an output.
C5_ResetThenRerun ==
    [][/\ last'.op = "reset" =>
            \A r \in work_items :
                (/\ r.kind \in last'.kinds
                 /\ \/ r.subject_type = "user" /\ r.subject_id = last'.username
                    \/ /\ r.subject_type = "repo"
                       /\ r.subject_id \in LinkedRepos(links, last'.username))
                => \E q \in work_items' :
                      /\ q.id = r.id
                      /\ KeyOf(q) = KeyOf(r)
                      /\ q.status = "pending"
                      /\ q.output_json = None
                      /\ q.processed_at = None
       /\ last'.op = "stage" =>
            \A i \in 1..Len(last'.ids) :
                last'.before[i] = "pending"
                => /\ last'.outcome # "skipped"
                   /\ (last'.kind = "embed_repo"
                       /\ get_subject(subjects, "repo", last'.ids[i]) # None)
                      => \E j \in 1..Len(last'.calls) :
                            \E n \in 1..Len(last'.calls[j].ids) :
                                last'.calls[j].ids[n] = last'.ids[i]
                   /\ (/\ last'.kind = "embed_user_profile"
                       /\ get_user_subject(subjects, last'.ids[i]) # None
                       /\ HighlightedNames(work_items, last'.ids[i]) # <<>>
                       /\ get_user_repos(subjects, links, last'.ids[i]) # None)
                      => last'.calls # <<>>
                   /\ _already_succeeded(work_items', last'.kind, last'.subject_type,
                                         last'.ids[i])
                      => get_work_item(work_items', last'.kind, last'.subject_type,
                                       last'.ids[i])[1].output_json # None]_vars

\* A stage was invoked on an item that a reset had left pending, and left it
\* succeeded with an output.
C5_Witness ==
    /\ last.op = "stage"
    /\ last.before[1] = "pending"
    /\ last.outcome = "returned"
    /\ _already_succeeded(work_items, last.kind, last.subject_type, last.ids[1])
    /\ get_work_item(work_items, last.kind, last.subject_type,
                     last.ids[1])[1].output_json # None

----------------------------------------------------------------------------
(* The orchestrated run: _run_worker(username) materializes the assets for *)
(* one username, one step at a time.  A step fails when its body raises,   *)
(* and a step downstream of a failed or skipped step is skipped.  The      *)
(* process may die at any point, and the run may be triggered again.       *)

\* At most MaxRuns runs are triggered.
MaxRuns == 2

\* Over all runs, at most MaxFaults steps get an answer other than the good
\* one from their provider.
MaxFaults == 1

\* The order of the steps of a run: the order of declaration in assets.py,
\* which is a topological order of deps.
RunOrder ==
    <<"fetch_profile_asset", "fetch_repos_asset", "select_highlighted_repos_asset",
      "generate_repo_blurb_asset", "embed_repo_asset", "embed_user_profile_asset",
      "build_for_you_trending_asset", "enhance_repo_media_asset",
      "infer_user_theme_asset", "extract_repo_emphasis_asset",
      "extract_repo_keywords_asset", "extract_repo_kind_asset">>

\* What the providers may answer in the step of an asset.  For the embed
\* steps the answer tells which provider calls raise, for the feed build
\* whether it runs to its end.
AnswersOf(asset) ==
    CASE asset = "fetch_profile_asset" -> Profiles
      [] asset = "fetch_repos_asset" -> Listings
      [] asset = "select_highlighted_repos_asset" -> Selections
      [] asset = "generate_repo_blurb_asset" -> Blurbs
      [] asset = "embed_repo_asset" -> {{}, {1}}
      [] asset = "enhance_repo_media_asset" -> Medias
      [] asset = "infer_user_theme_asset" -> Themes
      [] asset = "extract_repo_emphasis_asset" -> Lists
      [] asset = "extract_repo_keywords_asset" -> Lists
      [] asset = "extract_repo_kind_asset" -> Phrases
      [] OTHER -> BOOLEAN

\* The answer of a provider that works, for a user with a profile, one
\* repository of their own and one they contributed to.
GoodAnswer(asset) ==
    CASE asset = "fetch_profile_asset" -> Some(GhProfile)
      [] asset = "fetch_repos_asset" ->
            [repos |-> Some(<<GhApp>>), contributed |-> <<GhLib>>]
      [] asset = "select_highlighted_repos_asset" ->
            [nominees |-> {"alice/app"}, answer |-> Some(<<"app">>)]
      [] asset = "generate_repo_blurb_asset" -> "a cli tool"
      [] asset = "embed_repo_asset" -> {}
      [] asset = "enhance_repo_media_asset" -> Some([link |-> Some("https://app.dev")])
      [] asset = "infer_user_theme_asset" -> Some("builder")
      [] asset = "extract_repo_emphasis_asset" -> [ok |-> TRUE, data |-> <<"Python">>]
      [] asset = "extract_repo_keywords_asset" -> [ok |-> TRUE, data |-> <<"Python">>]
      [] asset = "extract_repo_kind_asset" -> "cli tool"
      [] OTHER -> TRUE

\* The rows of a query without ORDER BY, in some order.
RECURSIVE SeqOf(_)
SeqOf(S) ==
    IF S = {} THEN <<>>
    ELSE LET x == CHOOSE y \in S : TRUE IN <<x>> \o SeqOf(S \ {x})

\* get_repos_with_successful_work_item(conn, username, work_item_kind)
get_repos_with_successful_work_item(w, lnks, username, work_item_kind) ==
    SeqOf({r.subject_id : r \in {x \in w :
              /\ x.kind = work_item_kind
              /\ x.subject_type = "repo"
              /\ x.status = "succeeded"
              /\ \E l \in lnks : l.repo_id = x.subject_id /\ l.username = username}})

\* The subjects for which the body of an asset invokes its stage, None when
\* get_user_repos raises.
asset_subjects(db, asset, username) ==
    LET user_repos == get_user_repos(db.subjects, db.links, username)
        names == HighlightedNames(db.work_items, username)
        Known(n) == \E i \in 1..Len(user_repos[1]) : user_repos[1][i].data.name = n
        found == SelectSeq(names, Known)
    IN  CASE Assets[asset].scope = "user" -> Some(<<username>>)
          [] asset = "generate_repo_blurb_asset" ->
                IF user_repos = None THEN None
                ELSE Some([i \in 1..Len(found) |->
                              RowByName(user_repos[1], found[i]).subject_id])
          [] asset = "enhance_repo_media_asset" ->
                IF user_repos = None THEN None
                ELSE Some([i \in 1..Len(user_repos[1]) |-> user_repos[1][i].subject_id])
          [] OTHER ->
                Some(get_repos_with_successful_work_item(
                         db.work_items, db.links, username, "generate_repo_blurb"))

\* The stage of a kind invoked for one subject with the answer x.
invoke_stage(db, kind, id, x, t) ==
    CASE kind = "fetch_profile" -> fetch_profile(db, id, x, t)
      [] kind = "fetch_repos" -> fetch_repos(db, id, x.repos, x.contributed, t)
      [] kind = "select_highlighted_repos" ->
            select_highlighted_repos(db, id, x.nominees, x.answer, t)
      [] kind = "infer_user_theme" -> infer_user_theme(db, id, x, t)
      [] kind = "enhance_repo_media" -> enhance_repo_media(db, id, x, t)
      [] kind = "generate_repo_blurb" -> generate_repo_blurb(db, id, x, t)
      [] kind = "embed_user_profile" -> embed_user_profile(db, id, x, t)
      [] kind = "extract_repo_emphasis" -> extract_repo_emphasis(db, id, x, t)
      [] kind = "extract_repo_keywords" -> extract_repo_keywords(db, id, x, t)
      [] kind = "extract_repo_kind" -> extract_repo_kind(db, id, x, t)

\* What a run remembers of one invocation of a stage for one subject: the
\* status of the work item before it, whether the stage went past its skip
\* (the succeeded check, or the cache hit of an embed stage), and whether
\* it called a provider for the subject or changed the work item.
Invocation(db, after, kind, subject_type, id, executed, called) ==
    [kind |-> kind, id |-> id,
     before |-> StatusOf(db.work_items, kind, subject_type, id),
     cached |-> \A r \in db.work_items :
                    (KeyOf(r) = WorkKey(kind, subject_type, id)
                     /\ kind \notin GuardedKinds) => StillCached(db, r),
     executed |-> executed,
     worked |-> \/ called
                \/ get_work_item(after.work_items, kind, subject_type, id)
                   # get_work_item(db.work_items, kind, subject_type, id)]

\* The loop of an asset over its subjects: the stage is invoked for one
\* after the other; the loop ends when an invocation raises.
RECURSIVE run_stages(_, _, _, _, _, _)
run_stages(acc, kind, subject_type, ids, x, t) ==
    IF ids = <<>> \/ ~acc.ok THEN acc
    ELSE LET After(res) ==
                 [db |-> res.db,
                  ok |-> res.outcome # "raised",
                  log |-> acc.log \cup
                          {Invocation(acc.db, res.db, kind, subject_type, Head(ids),
                                      res.outcome # "skipped", res.calls # <<>>)}]
         IN  run_stages(After(invoke_stage(acc.db, kind, Head(ids), x, t)),
                        kind, subject_type, Tail(ids), x, t)

\* The body of embed_repo_asset: one call of embed_repos_batch for the
\* repositories with a succeeded blurb.
embed_repo_asset(db, username, failing, t) ==
    LET repo_ids == get_repos_with_successful_work_item(
                        db.work_items, db.links, username, "generate_repo_blurb")
        todo == repos_to_embed(db, repo_ids, "repo", "embed_repo")
        Sent(id) == \E i \in 1..Len(todo) : todo[i].repo_id = id
        After(res) ==
            [db |-> res.db, ok |-> TRUE,
             log |-> {Invocation(db, res.db, "embed_repo", "repo", repo_ids[i],
                                 Sent(repo_ids[i]), Sent(repo_ids[i])) :
                         i \in 1..Len(repo_ids)}]
    IN  After(embed_repos_batch(db, username, repo_ids, failing, t))

\* The body of an asset for username with the answer x of its provider.
\* The feed build writes no work item and nothing a stage reads; the
\* trending subjects and the exposure records it writes are modelled by
\* build_for_you_trending_asset.
asset_body(db, asset, username, x, t) ==
    LET ids == asset_subjects(db, asset, username)
    IN  IF asset = "build_for_you_trending_asset"
        THEN [db |-> db, ok |-> x, log |-> {}]
        ELSE IF asset = "embed_repo_asset"
        THEN embed_repo_asset(db, username, x, t)
        ELSE IF ids = None
        THEN [db |-> db, ok |-> FALSE, log |-> {}]
        ELSE run_stages([db |-> db, ok |-> TRUE, log |-> {}], Assets[asset].kind,
                        Assets[asset].scope, ids[1], x, t)

\* What a process that dies inside the body of an asset leaves committed:
\* the invocations for the first upto subjects; inside embed_repos_batch,
\* the running status of the first batch (committed before the provider
\* is called).
asset_body_killed(db, asset, username, x, t, upto) ==
    LET ids == asset_subjects(db, asset, username)
        repo_ids == get_repos_with_successful_work_item(
                        db.work_items, db.links, username, "generate_repo_blurb")
        todo == repos_to_embed(db, repo_ids, "repo", "embed_repo")
        size == IF Len(todo) < BATCH_SIZE THEN Len(todo) ELSE BATCH_SIZE
    IN  IF asset = "embed_repo_asset"
        THEN [db |-> Db(mark_batch(db.work_items, SubSeq(todo, 1, size), "repo",
                                   "embed_repo", "running", t),
                        db.subjects, db.links),
              ok |-> FALSE, log |-> {}]
        ELSE IF asset = "build_for_you_trending_asset" \/ ids = None
        THEN [db |-> db, ok |-> FALSE, log |-> {}]
        ELSE run_stages([db |-> db, ok |-> TRUE, log |-> {}], Assets[asset].kind,
                        Assets[asset].scope,
                        SubSeq(ids[1], 1, IF upto < Len(ids[1]) THEN upto ELSE Len(ids[1])),
                        x, t)

InitRun ==
    /\ now = 1
    /\ work_items = {}
    /\ subjects = EmptyFn
    /\ links = {}
    /\ tx = [c \in Conns |-> NoTx]
    /\ recommendations = EmptyFn
    /\ run = NoRun
    /\ last = [op |-> "init"]

\* The step the executor takes next: the first of RunOrder not taken yet.
NextAsset ==
    RunOrder[CHOOSE i \in 1..Len(RunOrder) :
                /\ run.step[RunOrder[i]] = "todo"
                /\ \A j \in 1..(i - 1) : run.step[RunOrder[j]] # "todo"]

\* _run_worker(username): a run of every asset begins.
Trigger(username) ==
    /\ run.phase = "idle"
    /\ run.n < MaxRuns
    /\ run' = [phase |-> "running", n |-> run.n + 1, username |-> username,
               faults |-> run.faults, crashed |-> FALSE, after_crash |-> run.crashed,
               step |-> [a \in DOMAIN Assets |-> "todo"],
               at_trigger |-> work_items, log |-> {}, returned |-> None]
    /\ last' = [op |-> "trigger", username |-> username]
    /\ UNCHANGED <<now, work_items, tx, subjects, links, recommendations>>

\* restart_from(username): the handler calls materialize outside any try
\* and answers with result.success; when materialize raises, so does it.
restart_from_response(result) ==
    [raised |-> result.raised, value |-> ~result.raised /\ result.success]

\* _run_worker(username, selection): what the handler gives its caller when
\* materialize(..., raise_on_error=False) ended with result: result.success,
\* or False when materialize raised.
_run_worker(result) ==
    [raised |-> FALSE, value |-> IF result.raised THEN FALSE ELSE result.success]

\* The result of materialize over the steps: success when no step failed
\* (a step is skipped only downstream of a failed one).
materialize(step) ==
    [raised |-> FALSE, success |-> \A a \in DOMAIN step : step[a] # "failed"]

\* What the handler that called materialize gives its caller.
Respond(handler, result) ==
    IF handler = "restart_from" THEN restart_from_response(result)
    ELSE _run_worker(result)

\* What the run becomes when its next step ends with outcome.
Stepped(outcome, log, faulty) ==
    LET step == [run.step EXCEPT ![NextAsset] = outcome]
        over == \A a \in DOMAIN Assets : step[a] # "todo"
    IN  [run EXCEPT !.step = step,
                    !.log = run.log \cup log,
                    !.faults = run.faults + (IF faulty THEN 1 ELSE 0),
                    !.phase = IF over THEN "idle" ELSE "running",
                    !.returned = IF over THEN Some(_run_worker(materialize(step)))
                                 ELSE None]

\* The executor takes the next step: it skips it when a step upstream
\* failed or was skipped, and runs the body of the asset otherwise.
RunStep(asset, x) ==
    /\ run.phase = "running"
    /\ asset = NextAsset
    /\ LET blocked == \E d \in Assets[asset].deps : run.step[d] \in {"failed", "skipped"}
           faulty == x # GoodAnswer(asset)
           Ran(res) ==
               /\ run' = Stepped(IF res.ok THEN "success" ELSE "failed", res.log, faulty)
               /\ last' = [op |-> "step", asset |-> asset,
                           outcome |-> IF res.ok THEN "success" ELSE "failed"]
               /\ now' = now + 1
               /\ work_items' = res.db.work_items
               /\ subjects' = res.db.subjects
               /\ links' = res.db.links
       IN  IF blocked
           THEN /\ ~faulty
                /\ run' = Stepped("skipped", {}, FALSE)
                /\ last' = [op |-> "step", asset |-> asset, outcome |-> "skipped"]
                /\ UNCHANGED <<now, work_items, subjects, links>>
           ELSE /\ faulty => run.faults < MaxFaults
                /\ Ran(asset_body(Database, asset, run.username, x, now))
    /\ UNCHANGED <<tx, recommendations>>

\* The process dies between two steps.
Crash ==
    /\ run.phase = "running"
    /\ run' = [run EXCEPT !.phase = "idle", !.crashed = TRUE]
    /\ last' = [op |-> "crash", asset |-> NextAsset]
    /\ UNCHANGED <<now, work_items, tx, subjects, links, recommendations>>

\* The process dies inside the body of the next step, after upto
\* invocations of its loop or inside embed_repos_batch.
CrashInStep(upto) ==
    /\ run.phase = "running"
    /\ \A d \in Assets[NextAsset].deps : run.step[d] = "success"
    /\ LET Died(res) ==
               /\ res.db # Database
               /\ run' = [run EXCEPT !.phase = "idle", !.crashed = TRUE,
                                     !.log = run.log \cup res.log]
               /\ last' = [op |-> "crash", asset |-> NextAsset]
               /\ now' = now + 1
               /\ work_items' = res.db.work_items
               /\ subjects' = res.db.subjects
               /\ links' = res.db.links
       IN  Died(asset_body_killed(Database, NextAsset, run.username,
                                  GoodAnswer(NextAsset), now, upto))
    /\ UNCHANGED <<tx, recommendations>>

\* materialize raises instead of returning a result (an error of the
\* orchestrator itself, not of a step): the except clause of _run_worker
\* takes over.
MaterializeRaises ==
    /\ run.phase = "running"
    /\ run' = [run EXCEPT !.phase = "idle",
                          !.returned = Some(_run_worker([raised |-> TRUE,
                                                         success |-> FALSE]))]
    /\ last' = [op |-> "error", asset |-> NextAsset]
    /\ UNCHANGED <<now, work_items, tx, subjects, links, recommendations>>

NextRun ==
    \/ \E u \in StageUsers : Trigger(u)
    \/ \E a \in DOMAIN Assets : \E x \in AnswersOf(a) : RunStep(a, x)
    \/ Crash
    \/ CrashInStep(1)
    \/ MaterializeRaises

SpecRun == InitRun /\ [][NextRun]_vars

----------------------------------------------------------------------------
(* Properties of the run.                                                  *)

\* The run in progress was triggered after a run that died.
Retriggered == run.n >= 2 /\ run.after_crash

\* The run took every step and did not die.
RunCompleted ==
    /\ run.n >= 1
    /\ run.phase = "idle"
    /\ ~run.crashed
    /\ \A a \in DOMAIN Assets : run.step[a] # "todo"

\* The stages that were incomplete when the run was triggered: the stages
\* of the user whose item was absent, pending, running or failed, and the
\* stages of a repository whose item was pending, running or failed.
IncompleteAtTrigger ==
    {[kind |-> k, id |-> run.username] :
        k \in {u \in USER_KINDS :
                  ~_already_succeeded(run.at_trigger, u, "user", run.username)}}
    \cup {[kind |-> r.kind, id |-> r.subject_id] :
            r \in {x \in run.at_trigger :
                      x.subject_type = "repo" /\ x.status # "succeeded"}}

\* The run went past the skip of the stage k.
ExecutedInRun(k) ==
    \E e \in run.log : e.kind = k.kind /\ e.id = k.id /\ e.executed

----------------------------------------------------------------------------
(* The embedding cache: embed_repos_batch and embed_user_profile for a     *)
(* user with one repository more than a batch holds, while the fetch_repos *)
(* of other users rewrites the subject of a repository they contributed    *)
(* to, and restart-from resets the embed work items.                       *)

\* The clock of this specification stops at MaxEmbedTime.
MaxEmbedTime == 4

\* The repositories of alice: one more than a batch.
EmbedRepoIds == [i \in 1..(BATCH_SIZE + 1) |-> "alice/r" \o ToString(i)]

\* What GitHub lists for repository i of alice.
GhEmbedRepo(i) ==
    [full_name |-> EmbedRepoIds[i], name |-> "r" \o ToString(i),
     description |-> Some("A"), language |-> Some("Python"), fork |-> FALSE,
     recent |-> TRUE, days |-> 0, pushed_at |-> Some(1)]

\* What GitHub yields for a user who contributed to the first repository of
\* alice, when its description is d.
GhContributed(d) ==
    [full_name |-> EmbedRepoIds[1], name |-> "r1", description |-> Some(d),
     language |-> Some("Python"), meta_ok |-> TRUE, recent |-> TRUE, days |-> 5,
     pushed_at |-> Some(1)]

\* The database after the profile and the repositories of alice were
\* fetched and her first repository was highlighted; and after both embed
\* stages ran on it.
SeedFetched ==
    select_highlighted_repos(
        fetch_repos(SeedProfile, "alice",
                    Some([i \in 1..(BATCH_SIZE + 1) |-> GhEmbedRepo(i)]), <<>>, 0).db,
        "alice", {EmbedRepoIds[1]}, Some(<<"r1">>), 0).db

SeedAllEmbedded ==
    embed_user_profile(
        embed_repos_batch(SeedFetched, "alice", EmbedRepoIds, {}, 0).db,
        "alice", TRUE, 0).db

\* The subjects that are embedded, with the kind of their embed work item.
EmbedKeys ==
    {[kind |-> "embed_repo", subject_type |-> "repo", id |-> EmbedRepoIds[i]] :
        i \in 1..(BATCH_SIZE + 1)}
    \cup {[kind |-> "embed_user_profile", subject_type |-> "user", id |-> "alice"]}

\* History: the content hash of the last successful embedding of each
\* subject, None when there was none; old is the history so far.
Embedded(w, old) ==
    [k \in EmbedKeys |->
        LET row == get_work_item(w, k.kind, k.subject_type, k.id)
        IN  IF /\ row # None
               /\ row[1].status = "succeeded"
               /\ row[1].output_json # None
               /\ "content_hash" \in DOMAIN row[1].output_json[1]
            THEN Some(row[1].output_json[1].content_hash)
            ELSE old[k]]

InitEmbed ==
    /\ now = 1
    /\ \E db \in {SeedFetched, SeedAllEmbedded} :
          /\ work_items = db.work_items
          /\ subjects = db.subjects
          /\ links = db.links
          /\ last = [op |-> "init",
                     embedded |-> Embedded(db.work_items, [k \in EmbedKeys |-> None])]
    /\ tx = [c \in Conns |-> NoTx]
    /\ recommendations = EmptyFn
    /\ run = NoRun

\* A handler of this specification ended with the result res; record tells
\* which handler it was.  History: the database the handler started from,
\* the provider calls it made, and the hashes of the last successful
\* embeddings before and after it.
EmbedSpecStep(record, res) ==
    /\ now < MaxEmbedTime
    /\ now' = now + 1
    /\ work_items' = res.db.work_items
    /\ subjects' = res.db.subjects
    /\ links' = res.db.links
    /\ last' = record @@ [before |-> Database, calls |-> res.calls,
                          was |-> last.embedded,
                          embedded |-> Embedded(res.db.work_items, last.embedded)]
    /\ UNCHANGED <<tx, recommendations, run>>

\* embed_repos_batch("alice", the repositories of alice); the provider
\* calls of the batches in failing raise.
EmbedAll(failing) ==
    EmbedSpecStep([op |-> "embed", kind |-> "embed_repo", subject_type |-> "repo",
                   ids |-> EmbedRepoIds, failing |-> failing],
                  embed_repos_batch(Database, "alice", EmbedRepoIds, failing, now))

\* embed_user_profile("alice")
EmbedUser(provider_ok) ==
    EmbedSpecStep([op |-> "embed", kind |-> "embed_user_profile",
                   subject_type |-> "user", ids |-> <<"alice">>,
                   failing |-> IF provider_ok THEN {} ELSE {1}],
                  embed_user_profile(Database, "alice", provider_ok, now))

\* fetch_repos(username) of a user who contributed to the first repository
\* of alice: it rewrites the subject with the description GitHub has now.
FetchReposOther(username, d) ==
    /\ ~_already_succeeded(work_items, "fetch_repos", "user", username)
    /\ EmbedSpecStep([op |-> "fetch", username |-> username],
                     fetch_repos(Database, username, Some(<<>>), <<GhContributed(d)>>, now))

\* restart_from(username) at embed_repo_asset: the embed work items of the
\* user and of the linked repositories go back to pending.
RestartFromEmbed(username) ==
    EmbedSpecStep([op |-> "reset", username |-> username],
                  Returned(restart_from_reset(Database, username,
                                              KindsToReset("embed_repo_asset", "user"),
                                              KindsToReset("embed_repo_asset", "repo")),
                           <<>>))

NextEmbed ==
    \/ \E failing \in SUBSET {1, 2} : EmbedAll(failing)
    \/ \E ok \in BOOLEAN : EmbedUser(ok)
    \/ \E u \in {"bob", "carol"}, d \in {"A", "B"} : FetchReposOther(u, d)
    \/ RestartFromEmbed("alice")

SpecEmbed == InitEmbed /\ [][NextEmbed]_vars

\* The hash of the canonical text of the subject k in the database db.
TextHash(db, k) ==
    compute_embedding_hash(
        IF k.subject_type = "user" THEN user_embedding_content(db, k.id)
        ELSE format_repo_for_embedding(
                 get_subject(db.subjects, k.subject_type, k.id)[1].data))

\* The content hash stored in the succeeded embed work item of k, None when
\* the item is not succeeded or stores no hash.
StoredHash(w, k) ==
    LET row == get_work_item(w, k.kind, k.subject_type, k.id)
    IN  IF /\ row # None
           /\ row[1].status = "succeeded"
           /\ row[1].output_json # None
           /\ "content_hash" \in DOMAIN row[1].output_json[1]
        THEN Some(row[1].output_json[1].content_hash)
        ELSE None

\* How many times the last handler sent the subject k to the provider: its
\* places in the calls of get_embeddings_batch and get_embedding.  (A call
\* is one call of the client; its retries are the client's.)
Sends(k) ==
    Cardinality({p \in (1..Len(last.calls)) \X (1..(BATCH_SIZE + 1)) :
                    /\ p[2] <= Len(last.calls[p[1]].ids)
                    /\ last.calls[p[1]].ids[p[2]] = k.id})

\* The subjects the last handler, an embed stage, was invoked for.
EmbedStepKeys ==
    IF last.op = "embed"
    THEN {k \in EmbedKeys : k.kind = last.kind /\ \E i \in DOMAIN last.ids : last.ids[i] = k.id}
    ELSE {}

\* C7: content-hash gating.  When an embed stage is invoked for a subject
\* whose embed work item is succeeded with a stored hash H, it makes no
\* provider call for the subject if the canonical text still hashes to H;
\* if the text hashes to something else it sends the subject to the provider
\* exactly once and, when the item ends succeeded, the stored hash is the
\* hash of the new text.
C7_HashGating ==
    \A k \in EmbedStepKeys :
        LET stored == StoredHash(last.before.work_items, k)
            hash == TextHash(last.before, k)
        IN  stored # None =>
                IF stored[1] = hash
                THEN /\ Sends(k) = 0
                     /\ StoredHash(work_items, k) = stored
                ELSE /\ Sends(k) = 1
                     /\ StatusOf(work_items, k.kind, k.subject_type, k.id) = "succeeded"
                           => StoredHash(work_items, k) = Some(hash)

\* An embed of the repositories found the text of one changed since its
\* embedding and that of another unchanged: it sent the first once and
\* stored the hash of its new text, and did not send the second.
C7_Witness ==
    /\ last.op = "embed"
    /\ last.kind = "embed_repo"
    /\ \E k \in EmbedStepKeys :
          /\ StoredHash(last.before.work_items, k) # None
          /\ StoredHash(last.before.work_items, k) # Some(TextHash(last.before, k))
          /\ Sends(k) = 1
          /\ StoredHash(work_items, k) = Some(TextHash(last.before, k))
    /\ \E k \in EmbedStepKeys :
          /\ StoredHash(last.before.work_items, k) = Some(TextHash(last.before, k))
          /\ Sends(k) = 0

\* The last handler, an embed stage, sent again a subject that had been
\* embedded successfully before.
SentAgain(k) ==
    /\ k \in EmbedStepKeys
    /\ last.was[k] # None
    /\ Sends(k) >= 1

RECURSIVE Misses(_)
Misses(ids) ==
    IF ids = <<>> THEN <<>>
    ELSE LET k == [kind |-> last.kind, subject_type |-> last.subject_type,
                   id |-> Head(ids)]
         IN  (IF StoredHash(last.before.work_items, k) = Some(TextHash(last.before, k))
              THEN <<>> ELSE <<Head(ids)>>)
             \o Misses(Tail(ids))

\* The subjects of the provider calls, one call after the other.
RECURSIVE SentIds(_)
SentIds(calls) ==
    IF calls = <<>> THEN <<>> ELSE Head(calls).ids \o SentIds(Tail(calls))

\* The last handler was embed_repos_batch.
BatchEmbedded == last.op = "embed" /\ last.kind = "embed_repo"

\* C9: when the provider call for a batch fails, every subject of that
\* batch ends the embed call failed with an output that carries a reason
\* (none running, none without a row), and the batches after it are still
\* attempted: every subject without a cache hit is in one of the calls, and
\* those of the calls that answered end succeeded.
C9_BatchFailure ==
    BatchEmbedded =>
        /\ \A j \in 1..Len(last.calls) : \A i \in DOMAIN last.calls[j].ids :
              LET row == get_work_item(work_items, "embed_repo", "repo",
                                       last.calls[j].ids[i])
              IN  /\ row # None
                  /\ IF j \in last.failing
                     THEN /\ row[1].status = "failed"
                          /\ row[1].output_json # None
                          /\ "reason" \in DOMAIN row[1].output_json[1]
                     ELSE row[1].status = "succeeded"
        /\ SentIds(last.calls) = Misses(last.ids)

\* The call of the first batch failed and that of the second answered: the
\* subjects of the first are failed, that of the second is succeeded.
C9_Witness ==
    /\ BatchEmbedded
    /\ last.failing = {1}
    /\ Len(last.calls) = 2
    /\ Len(last.calls[1].ids) = BATCH_SIZE
    /\ \A i \in 1..BATCH_SIZE :
          StatusOf(work_items, "embed_repo", "repo", last.calls[1].ids[i]) = "failed"
    /\ StatusOf(work_items, "embed_repo", "repo", last.calls[2].ids[1]) = "succeeded"

----------------------------------------------------------------------------
(* The community feed: feed/rank.py, feed/sources.py and the exposure      *)
(* records of db.py.  The clock ticks once a day; a similarity, a penalty  *)
(* and a score are in millionths; an embedding of this part is a direction *)
(* in the plane, in degrees.                                               *)

\* A mutant of get_recommendation: no record is found.
get_recommendation_none(recs, user_id, item_type, item_id) == None

\* get_recommendation(conn, user_id, item_type, item_id)
get_recommendation(recs, user_id, item_type, item_id) ==
    IF <<user_id, item_type, item_id>> \in DOMAIN recs
    THEN Some(recs[<<user_id, item_type, item_id>>])
    ELSE None

\* bump_recommendation_exposures(conn, user_id, items, now_epoch): for each
\* item INSERT ... VALUES (.., 1, now) ON CONFLICT DO UPDATE SET times_shown
\* = COALESCE(times_shown, 0) + 1, last_shown_at = excluded.last_shown_at.
RECURSIVE bump_recommendation_exposures(_, _, _, _)
bump_recommendation_exposures(recs, user_id, items, now_epoch) ==
    IF items = <<>> THEN recs
    ELSE LET key == <<user_id, Head(items)[1], Head(items)[2]>>
             row == IF key \in DOMAIN recs
                    THEN [times_shown |-> recs[key].times_shown + 1,
                          last_shown_at |-> Some(now_epoch)]
                    ELSE [times_shown |-> 1, last_shown_at |-> Some(now_epoch)]
         IN  bump_recommendation_exposures(
                 [k \in DOMAIN recs \cup {key} |-> IF k = key THEN row ELSE recs[k]],
                 user_id, Tail(items), now_epoch)

\* math.exp(-hours_since_last / 24) in millionths, for a whole number of
\* days; 1e9 hours stand for never and give 0.
ExpNeg(days) ==
    CASE days = 0 -> 1000000
      [] days = 1 -> 367879
      [] days = 2 -> 135335
      [] days = 3 -> 49787
      [] days = 4 -> 18316
      [] days = 5 -> 6738
      [] OTHER -> 0

\* A mutant of _fatigue_penalty_hours: the count is capped at two shows.
_fatigue_penalty_hours_capped(times_shown, days) ==
    LET base == 18 * 1000000 * (IF times_shown > 2 THEN 2
                                ELSE IF times_shown > 0 THEN times_shown ELSE 0)
        recency == 24 * (IF days = None THEN 0 ELSE ExpNeg(days[1]))
    IN  base + recency

\* _fatigue_penalty_hours(times_shown, hours_since_last) with alpha = 18,
\* beta = 24, tau = 24, in millionths of an hour; days is None for never.
_fatigue_penalty_hours(times_shown, days) ==
    LET base == 18 * 1000000 * (IF times_shown > 0 THEN times_shown ELSE 0)
        recency == 24 * (IF days = None THEN 0 ELSE ExpNeg(days[1]))
    IN  base + recency

\* similarity - penalty_hours / 240 for the exposure record rec of an item.
AdjustedScore(similarity, rec, t) ==
    LET times_shown == IF rec # None THEN rec[1].times_shown ELSE 0
        last_shown_at == IF rec # None THEN rec[1].last_shown_at ELSE None
        days == IF last_shown_at # None THEN Some(t - last_shown_at[1]) ELSE None
    IN  similarity - (_fatigue_penalty_hours(times_shown, days) \div 240)

\* The cosine of an angle between two directions, in millionths.
Cosine(degrees) ==
    CASE degrees = 0 -> 1000000
      [] degrees = 60 -> 500000
      [] degrees = 90 -> 0
      [] degrees = 120 -> 0 - 500000
      [] OTHER -> 0 - 1000000

\* A mutant of get_repos_similarity_to_user: a viewer without an embedding
\* is ranked as one with the direction 0.
get_repos_similarity_to_user_any_viewer(subs, viewer_username, candidate_repo_ids) ==
    LET ids == {candidate_repo_ids[i] : i \in DOMAIN candidate_repo_ids}
        with == {id \in ids : /\ <<"repo", id>> \in DOMAIN subs
                              /\ subs[<<"repo", id>>].embedding # None}
    IN  [id \in with |-> Cosine(subs[<<"repo", id>>].embedding[1].angle)]

\* get_repos_similarity_to_user(conn, viewer_username, candidate_repo_ids):
\* 1 - (embedding <=> user_embedding) for the candidates that have one;
\* empty when the viewer has no embedding.
get_repos_similarity_to_user(subs, viewer_username, candidate_repo_ids) ==
    LET user_row == get_subject(subs, "user", viewer_username)
        ids == {candidate_repo_ids[i] : i \in DOMAIN candidate_repo_ids}
        with == {id \in ids : /\ <<"repo", id>> \in DOMAIN subs
                              /\ subs[<<"repo", id>>].embedding # None}
        Apart(a, b) == IF a >= b THEN a - b ELSE b - a
    IN  IF candidate_repo_ids = <<>> THEN EmptyFn
        ELSE IF user_row = None THEN EmptyFn
        ELSE IF user_row[1].embedding = None THEN EmptyFn
        ELSE [id \in with |->
                 Cosine(Apart(subs[<<"repo", id>>].embedding[1].angle,
                              user_row[1].embedding[1].angle))]

\* The rows of the repo subjects named highlighted_name that the author is
\* linked to.
HighlightRows(db, author_username, highlighted_name) ==
    SeqOf({[author_username |-> author_username,
            highlighted_name |-> highlighted_name,
            subject_id |-> l.repo_id,
            data |-> db.subjects[<<"repo", l.repo_id>>].data,
            updated_at |-> db.subjects[<<"repo", l.repo_id>>].updated_at,
            user_commit_days |-> l.user_commit_days] :
           l \in {x \in db.links :
                     /\ x.username = author_username
                     /\ <<"repo", x.repo_id>> \in DOMAIN db.subjects
                     /\ db.subjects[<<"repo", x.repo_id>>].data.name = highlighted_name}})

\* The rows of the highlighted names of an author, name after name.
RECURSIVE AuthorRows(_, _, _)
AuthorRows(db, author_username, names) ==
    IF names = <<>> THEN <<>>
    ELSE HighlightRows(db, author_username, Head(names))
         \o AuthorRows(db, author_username, Tail(names))

\* get_all_highlighted_repos_batch(conn, viewer_username): for every user
\* with highlighted repos and every highlighted name, the linked repo
\* subjects of that name.
RECURSIVE get_all_highlighted_repos_batch(_, _)
get_all_highlighted_repos_batch(db, authors) ==
    IF authors = <<>> THEN <<>>
    ELSE LET user == get_user_subject(db.subjects, Head(authors))
         IN  (IF user = None THEN <<>>
              ELSE AuthorRows(db, Head(authors), user[1].highlighted_repos))
             \o get_all_highlighted_repos_batch(db, Tail(authors))

\* A mutant of _selection_key: the external flag comes before the commit
\* days.
_selection_key_flag_first(row, author_username) ==
    LET owner == IF row.subject_id \in DOMAIN RepoIdSplit
                 THEN RepoIdSplit[row.subject_id][1] ELSE ""
    IN  <<IF owner # author_username THEN 1 ELSE 0,
          IF row.user_commit_days # None THEN row.user_commit_days[1] ELSE 0 - 1,
          row.updated_at>>

\* _selection_key(pair): (user_commit_days or -1, external flag, updated_at)
_selection_key(row, author_username) ==
    LET owner == IF row.subject_id \in DOMAIN RepoIdSplit
                 THEN RepoIdSplit[row.subject_id][1] ELSE ""
    IN  <<IF row.user_commit_days # None THEN row.user_commit_days[1] ELSE 0 - 1,
          IF owner # author_username THEN 1 ELSE 0,
          row.updated_at>>

\* The order of Python on tuples of three numbers.
KeyLess(a, b) ==
    \/ a[1] < b[1]
    \/ a[1] = b[1] /\ a[2] < b[2]
    \/ a[1] = b[1] /\ a[2] = b[2] /\ a[3] < b[3]

\* A mutant of select_best_repo_candidate: the first candidate is answered.
select_best_repo_candidate_first(candidates, author_username) == candidates[1]

\* select_best_repo_candidate(candidates, author_username): max() answers
\* the first of the candidates with the greatest key.
select_best_repo_candidate(candidates, author_username) ==
    LET Key(i) == _selection_key(candidates[i], author_username)
    IN  candidates[CHOOSE i \in DOMAIN candidates :
                      /\ \A j \in DOMAIN candidates : ~KeyLess(Key(i), Key(j))
                      /\ \A j \in 1..(i - 1) : KeyLess(Key(j), Key(i))]

\* The keys (author, highlighted name) of the rows, in the order of their
\* first row.
RECURSIVE SlotKeys(_)
SlotKeys(rows) ==
    IF rows = <<>> THEN <<>>
    ELSE LET key == <<Head(rows).author_username, Head(rows).highlighted_name>>
             Other(r) == <<r.author_username, r.highlighted_name>> # key
         IN  <<key>> \o SlotKeys(SelectSeq(Tail(rows), Other))

\* The loop of iter_highlight_repo_candidates over the keys: the best row
\* of each key, unless the viewer owns the repository or it has no push
\* time.
RECURSIVE yield_candidates(_, _, _)
yield_candidates(all_rows, keys, viewer_username) ==
    IF keys = <<>> THEN <<>>
    ELSE LET InSlot(r) == <<r.author_username, r.highlighted_name>> = Head(keys)
             best == select_best_repo_candidate(SelectSeq(all_rows, InSlot),
                                                Head(keys)[1])
             repo == best.data
         IN  (IF OwnedBy(repo.id, viewer_username) \/ repo.pushed_at = None
              THEN <<>>
              ELSE <<[item_type |-> "repo", item_id |-> repo.id,
                      author_username |-> Head(keys)[1],
                      github_ts |-> repo.pushed_at[1]]>>)
             \o yield_candidates(all_rows, Tail(keys), viewer_username)

\* iter_highlight_repo_candidates(conn, viewer_username)
iter_highlight_repo_candidates(db, viewer_username) ==
    LET users == SeqOf({k[2] : k \in {x \in DOMAIN db.subjects : x[1] = "user"}})
        all_rows == get_all_highlighted_repos_batch(db, users)
    IN  yield_candidates(all_rows, SlotKeys(all_rows), viewer_username)

\* A mutant of ranked_candidates: a candidate without a similarity is ranked
\* with the similarity 0.
RECURSIVE ranked_candidates_unskipped(_, _, _, _, _)
ranked_candidates_unskipped(candidates, similarity_scores, recs, viewer_username, t) ==
    IF candidates = <<>> THEN <<>>
    ELSE LET c == Head(candidates)
             rec == get_recommendation(recs, viewer_username, c.item_type, c.item_id)
             similarity == IF c.item_id \in DOMAIN similarity_scores
                           THEN similarity_scores[c.item_id] ELSE 0
         IN  <<[score |-> AdjustedScore(similarity, rec, t),
                item_type |-> c.item_type, item_id |-> c.item_id,
                username |-> c.author_username]>>
             \o ranked_candidates_unskipped(Tail(candidates), similarity_scores, recs,
                                            viewer_username, t)

\* The loop of _build_feed_embeddings over the candidates: one entry for
\* each candidate that has a similarity, with its adjusted score.
RECURSIVE ranked_candidates(_, _, _, _, _)
ranked_candidates(candidates, similarity_scores, recs, viewer_username, t) ==
    IF candidates = <<>> THEN <<>>
    ELSE LET c == Head(candidates)
             rec == get_recommendation(recs, viewer_username, c.item_type, c.item_id)
         IN  (IF c.item_id \notin DOMAIN similarity_scores THEN <<>>
              ELSE <<[score |-> AdjustedScore(similarity_scores[c.item_id], rec, t),
                      item_type |-> c.item_type, item_id |-> c.item_id,
                      username |-> c.author_username]>>)
             \o ranked_candidates(Tail(candidates), similarity_scores, recs,
                                  viewer_username, t)

\* A mutant of sort_ranked: the entries stay in the order of the candidates.
sort_ranked_unsorted(ranked) == ranked

\* ranked.sort(key=lambda t: t[0], reverse=True): entries of equal score
\* keep their order.
RECURSIVE sort_ranked(_)
sort_ranked(ranked) ==
    IF ranked = <<>> THEN <<>>
    ELSE LET i == CHOOSE n \in DOMAIN ranked :
                      /\ \A j \in DOMAIN ranked : ranked[j].score <= ranked[n].score
                      /\ \A j \in 1..(n - 1) : ranked[j].score < ranked[n].score
         IN  <<ranked[i]>>
             \o sort_ranked(SubSeq(ranked, 1, i - 1) \o SubSeq(ranked, i + 1, Len(ranked)))

\* A mutant of deduped: every entry is kept.
deduped_keep_all(ranked) == ranked

\* A mutant of deduped: an entry is dropped when an earlier entry has its
\* author.
RECURSIVE deduped_by_author(_)
deduped_by_author(ranked) ==
    IF ranked = <<>> THEN <<>>
    ELSE LET Other(r) == r.username # Head(ranked).username
         IN  <<Head(ranked)>> \o deduped_by_author(SelectSeq(Tail(ranked), Other))

\* The entries of ranked without those whose item_id an earlier entry has.
RECURSIVE deduped(_)
deduped(ranked) ==
    IF ranked = <<>> THEN <<>>
    ELSE LET Other(r) == r.item_id # Head(ranked).item_id
         IN  <<Head(ranked)>> \o deduped(SelectSeq(Tail(ranked), Other))

\* deduped[:limit], the slice of Python: a negative limit counts from the
\* end.
Top(entries, limit) ==
    LET n == Len(entries)
        upto == IF limit >= 0 THEN (IF limit < n THEN limit ELSE n)
                ELSE (IF n + limit > 0 THEN n + limit ELSE 0)
    IN  SubSeq(entries, 1, upto)

\* What a feed build answers: the page, the exposure records it leaves
\* committed, and the candidates it evaluated.
Feed(items, recs, candidates) ==
    [items |-> items, recs |-> recs, candidates |-> candidates]

\* _build_feed_embeddings(conn, viewer_username, limit) at the time t
_build_feed_embeddings(db, recs, viewer_username, limit, t) ==
    LET candidates == iter_highlight_repo_candidates(db, viewer_username)
        candidate_repo_ids == [i \in DOMAIN candidates |-> candidates[i].item_id]
        similarity_scores ==
            get_repos_similarity_to_user(db.subjects, viewer_username, candidate_repo_ids)
        ranked == sort_ranked(ranked_candidates(candidates, similarity_scores, recs,
                                                viewer_username, t))
        top == Top(deduped(ranked), limit)
        shown_keys == [i \in DOMAIN top |-> <<top[i].item_type, top[i].item_id>>]
    IN  IF candidates = <<>> THEN Feed(<<>>, recs, candidates)
        ELSE IF DOMAIN similarity_scores = {} THEN Feed(<<>>, recs, candidates)
        ELSE Feed(top,
                  IF top # <<>>
                  THEN bump_recommendation_exposures(recs, viewer_username, shown_keys, t)
                  ELSE recs,
                  candidates)

\* build_feed_for_user(conn, viewer_username, source="community", limit)
build_feed_for_user(db, recs, viewer_username, limit, t) ==
    IF get_user_subject(db.subjects, viewer_username) = None
    THEN Feed(<<>>, recs, <<>>)
    ELSE _build_feed_embeddings(db, recs, viewer_username, limit, t)

\* The clock of this specification stops at MaxFeedTime.
MaxFeedTime == 4

\* A subject row with the embedding of the direction angle, or with none.
FeedRow(data, angle) ==
    [data |-> data, updated_at |-> 0,
     embedding |-> IF angle = None THEN None
                   ELSE Some([angle |-> angle[1], dim |-> EMBEDDING_DIM])]

\* Three users and four repositories.  alice highlights her app; bob
\* highlights his lib and his kit; carol highlights the name lib, under
\* which she is linked to the lib of alice (days commit days) and to the lib
\* of bob (5 commit days).  carol has no embedding; lib and kit are the
\* directions of the embeddings of the lib and the kit of bob.
FeedSeed(days, lib, kit) ==
    Db({},
       [k \in {<<"user", "alice">>, <<"user", "bob">>, <<"user", "carol">>,
               <<"repo", "alice/app">>, <<"repo", "alice/lib">>,
               <<"repo", "bob/lib">>, <<"repo", "bob/kit">>} |->
           CASE k = <<"user", "alice">> ->
                    FeedRow(UserSubject(Some("alice"), None, None, <<"app">>, FALSE),
                            Some(0))
             [] k = <<"user", "bob">> ->
                    FeedRow(UserSubject(Some("bob"), None, None, <<"lib", "kit">>, FALSE),
                            Some(60))
             [] k = <<"user", "carol">> ->
                    FeedRow(UserSubject(Some("carol"), None, None, <<"lib">>, FALSE),
                            None)
             [] k = <<"repo", "alice/app">> ->
                    FeedRow(RepoSubject("alice/app", "app", None, Some("Python"), Some(1)),
                            Some(60))
             [] k = <<"repo", "alice/lib">> ->
                    FeedRow(RepoSubject("alice/lib", "lib", None, Some("Go"), Some(1)),
                            Some(0))
             [] k = <<"repo", "bob/lib">> ->
                    FeedRow(RepoSubject("bob/lib", "lib", None, Some("Go"), Some(1)), lib)
             [] OTHER ->
                    FeedRow(RepoSubject("bob/kit", "kit", None, Some("Go"), Some(1)), kit)],
       upsert_user_repo_link(
           upsert_user_repo_link(
               upsert_user_repo_link(
                   upsert_user_repo_link(
                       upsert_user_repo_link({}, "alice", "alice/app", "owned", None),
                       "bob", "bob/lib", "owned", None),
                   "bob", "bob/kit", "owned", None),
               "carol", "alice/lib", "contributed", Some(days)),
           "carol", "bob/lib", "contributed", Some(5)))

InitFeed ==
    /\ now = 1
    /\ \E days \in {3, 7}, lib \in {Some(0), Some(60)}, kit \in {None, Some(0), Some(60)} :
          /\ work_items = FeedSeed(days, lib, kit).work_items
          /\ subjects = FeedSeed(days, lib, kit).subjects
          /\ links = FeedSeed(days, lib, kit).links
    /\ tx = [c \in Conns |-> NoTx]
    /\ recommendations = EmptyFn
    /\ run = NoRun
    /\ last = [op |-> "init"]

\* A feed build answered feed.  History: the viewer, the limit, the time of
\* the build, the page, the candidates and the exposure records before it.
Served(viewer_username, limit, feed) ==
    /\ now < MaxFeedTime
    /\ now' = now + 1
    /\ recommendations' = feed.recs
    /\ last' = [op |-> "feed", viewer |-> viewer_username, limit |-> limit,
                at |-> now, items |-> feed.items, candidates |-> feed.candidates,
                before |-> recommendations]
    /\ UNCHANGED <<work_items, tx, subjects, links, run>>

\* GET /for-you/<viewer_username>?limit=<limit>
for_you(viewer_username, limit) ==
    Served(viewer_username, limit,
           build_feed_for_user(Database, recommendations, viewer_username, limit, now))

NextFeed ==
    \E viewer_username \in {"alice", "bob", "carol", "zed"}, limit \in {0 - 1, 0, 1, 30} :
        for_you(viewer_username, limit)

SpecFeed == InitFeed /\ [][NextFeed]_vars

\* The keys of the exposure records of the items of the page.
PageKeys ==
    {<<last.viewer, last.items[i].item_type, last.items[i].item_id>> :
        i \in DOMAIN last.items}

\* The keys of the exposure records of the candidates of the build.
CandidateKeys ==
    {<<last.viewer, last.candidates[i].item_type, last.candidates[i].item_id>> :
        i \in DOMAIN last.candidates}

\* C10: exposure exactly once per serve.  A feed build that returns a page
\* to a viewer leaves, for every item of the page, times_shown one greater
\* than before (1 when there was no record) and last_shown_at at the time
\* of the build, however many candidates carried the item; every other
\* exposure record, those of the candidates that were not returned among
\* them, is as before, and none is created for them.
C10_ExposureOncePerServe ==
    last.op = "feed" =>
        \A k \in DOMAIN recommendations \cup DOMAIN last.before \cup CandidateKeys
                 \cup PageKeys :
            IF k \in PageKeys
            THEN /\ k \in DOMAIN recommendations
                 /\ recommendations[k].times_shown =
                        (IF k \in DOMAIN last.before THEN last.before[k].times_shown
                         ELSE 0) + 1
                 /\ recommendations[k].last_shown_at = Some(last.at)
            ELSE /\ (k \in DOMAIN recommendations) = (k \in DOMAIN last.before)
                 /\ k \in DOMAIN last.before => recommendations[k] = last.before[k]

\* A build returned a page with an item that two candidates carried and
\* that had been shown before, and left out a candidate that had been shown
\* before and one that had no embedding.
C10_Witness ==
    /\ last.op = "feed"
    /\ \E i \in DOMAIN last.items :
          /\ Cardinality({j \in DOMAIN last.candidates :
                             last.candidates[j].item_id = last.items[i].item_id}) = 2
          /\ recommendations[<<last.viewer, "repo", last.items[i].item_id>>].times_shown = 2
    /\ \E k \in CandidateKeys \ PageKeys :
          /\ k \in DOMAIN last.before
          /\ recommendations[k] = last.before[k]

----------------------------------------------------------------------------
(* The trending feed: _build_feed_llm of feed/rank.py with its candidates  *)
(* of feed/sources.py, and the handlers that build a feed, run the feed    *)
(* step of the pipeline or reset a user.  A timestamp-based score is in    *)
(* millionths of an hour.                                                  *)

\* The RepoSubject that fetch_and_store_trending_repos stores for a scraped
\* repository: no push time, extracted_at the time of the scrape.
TrendingSubject(repo_id, language, scraped_at) ==
    [extracted_at |-> Some(scraped_at)]
        @@ RepoSubject(repo_id, RepoIdSplit[repo_id][2], None, language, None)

\* fetch_and_store_trending_repos(conn, languages): scraped is the set of
\* the repositories of the trending pages, each with its language.
RECURSIVE fetch_and_store_trending_repos(_, _, _)
fetch_and_store_trending_repos(subs, scraped, t) ==
    IF scraped = {} THEN subs
    ELSE LET repo == CHOOSE r \in scraped : TRUE
         IN  fetch_and_store_trending_repos(
                 upsert_subject(subs, "trending_repo", repo.id,
                                TrendingSubject(repo.id, repo.language, t), t),
                 scraped \ {repo}, t)

\* get_newest_trending_repo_age_hours(conn): the hours since the newest
\* trending subject was written, None when there is none.
get_newest_trending_repo_age_hours(subs, t) ==
    LET trending == {k \in DOMAIN subs : k[1] = "trending_repo"}
        newest == CHOOSE k \in trending :
                      \A q \in trending : subs[q].updated_at <= subs[k].updated_at
    IN  IF trending = {} THEN None ELSE Some(24 * (t - subs[newest].updated_at))

\* get_user_languages(conn, username): the languages of the repositories
\* linked to the user; None when get_user_repos raises.
get_user_languages(db, username) ==
    LET repo_rows == get_user_repos(db.subjects, db.links, username)
    IN  IF repo_rows = None THEN None
        ELSE Some({repo_rows[1][i].data.language[1] :
                      i \in {j \in DOMAIN repo_rows[1] :
                                repo_rows[1][j].data.language # None}})

\* The rows of a set of subject keys, newest first (ORDER BY updated_at
\* DESC).
RECURSIVE NewestFirst(_, _)
NewestFirst(subs, keys) ==
    IF keys = {} THEN <<>>
    ELSE LET first == CHOOSE k \in keys :
                          \A q \in keys : subs[q].updated_at <= subs[k].updated_at
         IN  <<first>> \o NewestFirst(subs, keys \ {first})

\* get_trending_repos_by_languages(conn, languages)
get_trending_repos_by_languages(subs, languages) ==
    NewestFirst(subs, {k \in DOMAIN subs :
                          /\ k[1] = "trending_repo"
                          /\ subs[k].data.language # None
                          /\ subs[k].data.language[1] \in languages})

\* iter_trending_repo_candidates(conn, viewer_username); None when
\* get_user_languages raises.
iter_trending_repo_candidates(db, viewer_username) ==
    LET user == get_user_subject(db.subjects, viewer_username)
        languages == get_user_languages(db, viewer_username)
        rows == get_trending_repos_by_languages(db.subjects, languages[1])
        with == SelectSeq(rows, LAMBDA k : db.subjects[k].data.extracted_at # None)
    IN  IF user = None \/ user[1].highlighted_repos = <<>> THEN Some(<<>>)
        ELSE IF languages = None THEN None
        ELSE IF languages[1] = {} THEN Some(<<>>)
        ELSE Some([i \in DOMAIN with |->
                      [item_type |-> "trending_repo", item_id |-> with[i][2],
                       author_username |-> RepoIdSplit[with[i][2]][1],
                       github_ts |-> db.subjects[with[i]].data.extracted_at[1]]])

\* judge_repo_for_user(conn, viewer_user, repo, author_username, item_type):
\* include, exclude or raise.  An existing record has no attribute include
\* (models.Recommendation), so reading it raises; otherwise answer is what
\* the judging collaborator does, and its judgment leaves no state in the
\* exposure records.
judge_repo_for_user(recs, viewer_username, item_type, item_id, answer) ==
    IF get_recommendation(recs, viewer_username, item_type, item_id) # None
    THEN "raise"
    ELSE answer

\* _apply_fatigue_and_create_item: adjusted_ts = github_ts - penalty_h * 3600
AdjustedTs(github_ts, rec, t) ==
    LET times_shown == IF rec # None THEN rec[1].times_shown ELSE 0
        last_shown_at == IF rec # None THEN rec[1].last_shown_at ELSE None
        days == IF last_shown_at # None THEN Some(t - last_shown_at[1]) ELSE None
    IN  (github_ts * 24 * 1000000) - _fatigue_penalty_hours(times_shown, days)

\* _judge_candidate_parallel(viewer_user, viewer_username, candidate_tuple,
\* now): the entry of an included candidate, <<>> for one that is excluded
\* or whose judging raised.
_judge_candidate_parallel(recs, viewer_username, c, answer, t) ==
    IF judge_repo_for_user(recs, viewer_username, c.item_type, c.item_id, answer)
           # "include"
    THEN <<>>
    ELSE <<[score |-> AdjustedTs(c.github_ts,
                                 get_recommendation(recs, viewer_username,
                                                    c.item_type, c.item_id), t),
            item_type |-> c.item_type, item_id |-> c.item_id,
            username |-> c.author_username]>>

\* The entries of the candidates in the order in which their threads
\* completed (as_completed); turns is the order of completion.
RECURSIVE judged(_, _, _, _, _, _)
judged(recs, viewer_username, candidates, turns, answers, t) ==
    IF turns = <<>> THEN <<>>
    ELSE _judge_candidate_parallel(recs, viewer_username, candidates[Head(turns)],
                                   answers[candidates[Head(turns)].item_id], t)
         \o judged(recs, viewer_username, candidates, Tail(turns), answers, t)

\* _finalize_ranked_feed(ranked, limit, viewer_username, conn, now): sort,
\* slice, bump the exposure records of the page under the item type inferred
\* from its first item.
_finalize_ranked_feed(ranked, limit, viewer_username, recs, t) ==
    LET top == Top(sort_ranked(ranked), limit)
        item_type == IF top[1].username = "" \/ top[1].item_id \notin DOMAIN RepoIdSplit
                     THEN "trending_repo" ELSE "repo"
        shown_keys == [i \in DOMAIN top |-> <<item_type, top[i].item_id>>]
    IN  [items |-> top,
         recs |-> IF top # <<>>
                  THEN bump_recommendation_exposures(recs, viewer_username, shown_keys, t)
                  ELSE recs]

\* What a trending build answers: the page, the exposure records and the
\* subjects it leaves committed, the candidates it judged, and whether it
\* raised.
TrendingFeed(items, recs, subs, candidates, raised) ==
    [items |-> items, recs |-> recs, subjects |-> subs, candidates |-> candidates,
     raised |-> raised]

\* _build_feed_llm(conn, viewer_username, user, "trending", limit) at the
\* time t.  scraped is what the trending pages show, None when the scrape
\* fails; answers is what the judging collaborator does with each
\* repository; reversed tells whether the threads of the batch complete in
\* the reverse of the order of their submission.
_build_feed_llm(db, recs, viewer_username, limit, scraped, answers, reversed, t) ==
    LET age_hours == get_newest_trending_repo_age_hours(db.subjects, t)
        stale == age_hours = None \/ age_hours[1] > 6
        languages == get_user_languages(db, viewer_username)
        subs == IF stale /\ languages # None /\ languages[1] # {} /\ scraped # None
                THEN fetch_and_store_trending_repos(db.subjects, scraped[1], t)
                ELSE db.subjects
        candidates == iter_trending_repo_candidates(Db(db.work_items, subs, db.links),
                                                    viewer_username)
        n == Len(candidates[1])
        turns == [i \in 1..n |-> IF reversed THEN n + 1 - i ELSE i]
        done == _finalize_ranked_feed(
                    judged(recs, viewer_username, candidates[1], turns, answers, t),
                    limit, viewer_username, recs, t)
    IN  IF stale /\ languages = None
        THEN TrendingFeed(<<>>, recs, db.subjects, <<>>, TRUE)
        ELSE IF candidates = None THEN TrendingFeed(<<>>, recs, subs, <<>>, TRUE)
        ELSE TrendingFeed(done.items, done.recs, subs, candidates[1], FALSE)

\* build_feed_for_user(conn, viewer_username, source="trending", limit)
build_feed_for_user_trending(db, recs, viewer_username, limit, scraped, answers, reversed, t) ==
    IF get_user_subject(db.subjects, viewer_username) = None
    THEN TrendingFeed(<<>>, recs, db.subjects, <<>>, FALSE)
    ELSE _build_feed_llm(db, recs, viewer_username, limit, scraped, answers,
                         reversed, t)

\* The repositories of the trending pages of this specification.
TrendingIds == {"bob/kit", "bob/lib"}

\* The seed of the feed with two trending subjects in the language of the
\* app of alice, scraped at the time 0.
TrendSeed(days, lib, kit) ==
    LET db == FeedSeed(days, lib, kit)
    IN  Db(db.work_items,
           fetch_and_store_trending_repos(
               db.subjects,
               {[id |-> id, language |-> Some("Python")] : id \in TrendingIds}, 0),
           db.links)

\* What a scrape of the trending pages gives: it fails, or it shows the kit.
Scrapes == {None, Some({[id |-> "bob/kit", language |-> Some("Python")]})}

\* What the judging collaborator does with the trending repositories: it
\* includes the kit or fails on it, and includes or excludes the lib.
Answers ==
    {a \in [TrendingIds -> {"include", "exclude", "raise"}] :
        a["bob/kit"] # "exclude" /\ a["bob/lib"] # "raise"}

InitTrend ==
    /\ now = 1
    /\ \E days \in {3, 7}, lib \in {Some(0), Some(60)}, kit \in {None, Some(60)} :
          /\ work_items = TrendSeed(days, lib, kit).work_items
          /\ subjects = TrendSeed(days, lib, kit).subjects
          /\ links = TrendSeed(days, lib, kit).links
    /\ tx = [c \in Conns |-> NoTx]
    /\ recommendations = EmptyFn
    /\ run = NoRun
    /\ last = [op |-> "init"]

\* A trending build of the kind op answered feed.  History: the viewer, the
\* limit, the time, the page, the candidates and the exposure records
\* before the build.
BuiltTrending(op, viewer_username, limit, feed) ==
    /\ now < MaxFeedTime
    /\ now' = now + 1
    /\ recommendations' = feed.recs
    /\ subjects' = feed.subjects
    /\ last' = [op |-> op, source |-> "trending", viewer |-> viewer_username,
                limit |-> limit, at |-> now, items |-> feed.items,
                candidates |-> feed.candidates, raised |-> feed.raised,
                before |-> recommendations]
    /\ UNCHANGED <<work_items, tx, links, run>>

\* GET and POST /for-you-trending/<viewer_username>?limit=<limit>
for_you_trending(viewer_username, limit, scraped, answers, reversed) ==
    BuiltTrending("feed", viewer_username, limit,
                  build_feed_for_user_trending(Database, recommendations,
                                               viewer_username, limit, scraped,
                                               answers, reversed, now))

\* build_for_you_trending_asset(config), the feed step of a pipeline run
\* for config.username: the page is dropped.
build_for_you_trending_asset(username, scraped, answers, reversed) ==
    BuiltTrending("asset", username, 30,
                  build_feed_for_user_trending(Database, recommendations, username,
                                               30, scraped, answers, reversed, now))

\* A handler that builds no feed left the database db.
Handled(op, username, db) ==
    /\ now < MaxFeedTime
    /\ now' = now + 1
    /\ work_items' = db.work_items
    /\ subjects' = db.subjects
    /\ links' = db.links
    /\ last' = [op |-> op, viewer |-> username, before |-> recommendations]
    /\ UNCHANGED <<tx, recommendations, run>>

\* POST /restart with username
RestartUser(username) ==
    Handled("restart", username, restart(Database, username))

\* POST /restart-from with username and the asset start
ResetUser(username, start) ==
    Handled("reset", username,
            restart_from_reset(Database, username, KindsToReset(start, "user"),
                               KindsToReset(start, "repo")))

NextTrend ==
    \/ \E viewer_username \in {"alice", "bob", "zed"}, limit \in {0 - 1, 1, 30} :
          for_you(viewer_username, limit)
    \/ \E viewer_username \in {"alice", "zed"}, limit \in {0 - 1, 1, 30},
          scraped \in Scrapes, answers \in Answers, reversed \in BOOLEAN :
          for_you_trending(viewer_username, limit, scraped, answers, reversed)
    \/ \E username \in {"alice", "zed"},
          scraped \in Scrapes, answers \in Answers, reversed \in BOOLEAN :
          build_for_you_trending_asset(username, scraped, answers, reversed)
    \/ \E username \in {"alice", "bob"} : RestartUser(username)
    \/ \E username \in {"alice", "bob"},
          start \in {"fetch_profile_asset", "embed_repo_asset"} :
          ResetUser(username, start)

SpecTrend == InitTrend /\ [][NextTrend]_vars

\* C11: exposure records change only when a feed page is returned to a
\* caller of the feed build.  The feed step of a pipeline run, a reset and a
\* restart leave every exposure record of every viewer as it was.
C11_ExposureOnlyOnServe ==
    last.op \in {"asset", "reset", "restart"} => recommendations = last.before

\* The ranked entries of the last build before the sort: for a community
\* build the candidates that have a similarity, for a trending build the
\* candidates with the score an included one gets.
RankedBefore ==
    IF "source" \in DOMAIN last
    THEN [i \in DOMAIN last.candidates |->
             [score |-> AdjustedTs(last.candidates[i].github_ts,
                                   get_recommendation(last.before, last.viewer,
                                                      last.candidates[i].item_type,
                                                      last.candidates[i].item_id),
                                   last.at),
              item_type |-> last.candidates[i].item_type,
              item_id |-> last.candidates[i].item_id,
              username |-> last.candidates[i].author_username]]
    ELSE ranked_candidates(
             last.candidates,
             get_repos_similarity_to_user(
                 subjects, last.viewer,
                 [i \in DOMAIN last.candidates |-> last.candidates[i].item_id]),
             last.before, last.viewer, last.at)

\* C12: the page of a feed build, community or trending, never has two
\* items with the same item id, and the occurrence of an item id that the
\* page keeps has the highest adjusted score of the ranked entries with
\* that id.
C12_NoDuplicateItem ==
    last.op \in {"feed", "asset"} =>
        /\ \A i, j \in DOMAIN last.items :
              last.items[i].item_id = last.items[j].item_id => i = j
        /\ \A i \in DOMAIN last.items :
              /\ \E r \in DOMAIN RankedBefore : RankedBefore[r] = last.items[i]
              /\ \A r \in DOMAIN RankedBefore :
                    RankedBefore[r].item_id = last.items[i].item_id
                        => RankedBefore[r].score <= last.items[i].score

\* A community build ranked one repository under two authors and returned
\* it once, when an earlier build had left an exposure record.
C12_Witness ==
    /\ last.op = "feed"
    /\ "source" \notin DOMAIN last
    /\ \E i \in DOMAIN last.items :
          Cardinality({r \in DOMAIN RankedBefore :
                          RankedBefore[r].item_id = last.items[i].item_id}) = 2
    /\ \E k \in DOMAIN last.before : last.before[k].times_shown = 1

\* The item ids of the page of the last build.
PageIds == {last.items[i].item_id : i \in DOMAIN last.items}

\* C13: the page of a community build is in descending order of adjusted
\* score and is a selection of the top: no ranked entry whose item is not on
\* the page has a higher score than an item of the page.
C13_TopN ==
    (last.op = "feed" /\ "source" \notin DOMAIN last) =>
        /\ \A i, j \in DOMAIN last.items :
              i < j => last.items[i].score >= last.items[j].score
        /\ \A i \in DOMAIN last.items : \A r \in DOMAIN RankedBefore :
              RankedBefore[r].item_id \notin PageIds
                  => last.items[i].score >= RankedBefore[r].score

\* A build returned one item and left out a ranked repository of a lower
\* score that comes before it among the candidates and has the higher
\* similarity: it had been shown before.
C13_Witness ==
    /\ last.op = "feed"
    /\ "source" \notin DOMAIN last
    /\ Len(last.items) = 1
    /\ \E r \in DOMAIN RankedBefore :
          /\ RankedBefore[r].item_id \notin PageIds
          /\ RankedBefore[r].score < last.items[1].score
          /\ <<last.viewer, "repo", RankedBefore[r].item_id>> \in DOMAIN last.before
          /\ \A q \in DOMAIN RankedBefore :
                RankedBefore[q] = last.items[1] => r < q

\* The keys of the exposure records that the last step created or changed.
BumpedKeys ==
    {k \in DOMAIN recommendations :
        k \notin DOMAIN last.before \/ recommendations[k] # last.before[k]}

\* C14: a feed build returns no more items, and bumps no more exposure
\* records, than the limit it was asked for, whatever integer the limit is;
\* a limit below zero allows no item.
C14_AtMostLimit ==
    last.op = "feed" =>
        LET most == IF last.limit > 0 THEN last.limit ELSE 0
        IN  /\ Len(last.items) <= most
            /\ Cardinality(BumpedKeys) <= most

\* The viewer of the last build has no user subject, or has one without an
\* embedding.
ViewerCannotRank ==
    \/ get_user_subject(subjects, last.viewer) = None
    \/ subjects[<<"user", last.viewer>>].embedding = None

\* C15: a community feed build for a viewer that does not exist or has no
\* embedding answers the empty page and leaves every exposure record as it
\* was.
C15_NoEmbeddingEmptyFeed ==
    (last.op = "feed" /\ "source" \notin DOMAIN last /\ ViewerCannotRank) =>
        /\ last.items = <<>>
        /\ recommendations = last.before

\* A build for a viewer without an embedding had candidates to rank, after
\* an earlier build had left an exposure record.
C15_Witness ==
    /\ last.op = "feed"
    /\ "source" \notin DOMAIN last
    /\ get_user_subject(subjects, last.viewer) # None
    /\ ViewerCannotRank
    /\ last.candidates # <<>>
    /\ last.limit = 30
    /\ recommendations # EmptyFn

----------------------------------------------------------------------------
(* The fatigue penalty as a function: the adjusted score of one item for   *)
(* a fixed similarity, evaluated for two exposure records in a row.  The   *)
(* score is rounded to millionths here and to a double in the code, where  *)
(* the recency term is lost to the rounding from about 750 hours on and    *)
(* exp underflows to 0 for the 1e9 hours of an item never shown.           *)

\* The greatest times_shown of this specification.
MaxShown == 3

\* The greatest number of days since the last show of this specification.
MaxDays == 8

\* The time of the evaluations of this specification.
FatigueNow == 10

\* The exposure records of this specification: none, or one with a count
\* and the time of the last show.
FatigueRecs ==
    {None} \cup {Some([times_shown |-> n, last_shown_at |-> Some(FatigueNow - d)]) :
                    n \in 0..MaxShown, d \in 0..MaxDays}

\* The adjusted score of the record rec for the similarity, with what the
\* code computes from rec: times_shown and the days since the last show
\* (None for the 1e9 hours of never).
Scored(similarity, rec) ==
    [times_shown |-> IF rec # None THEN rec[1].times_shown ELSE 0,
     days |-> IF rec # None THEN Some(FatigueNow - rec[1].last_shown_at[1]) ELSE None,
     score |-> AdjustedScore(similarity, rec, FatigueNow)]

InitFatigue ==
    /\ now = FatigueNow
    /\ work_items = {}
    /\ tx = [c \in Conns |-> NoTx]
    /\ subjects = EmptyFn
    /\ links = {}
    /\ recommendations = EmptyFn
    /\ run = NoRun
    /\ \E similarity \in {0, 500000, 1000000}, rec \in FatigueRecs :
          last = [op |-> "score", similarity |-> similarity,
                  prev |-> Scored(similarity, rec), cur |-> Scored(similarity, rec)]

\* The score of the same item is computed again for the record rec.
ScoreAgain(rec) ==
    /\ last' = [last EXCEPT !.prev = last.cur, !.cur = Scored(last.similarity, rec)]
    /\ UNCHANGED <<now, work_items, tx, subjects, links, recommendations, run>>

NextFatigue == \E rec \in FatigueRecs : ScoreAgain(rec)

SpecFatigue == InitFatigue /\ [][NextFatigue]_vars

\* Less on the hours since the last show; never (None) is more than any
\* number of days.
HoursLess(a, b) ==
    a # None /\ (b = None \/ a[1] < b[1])

RecencyCounts(days) == days # None /\ 24 * ExpNeg(days[1]) >= 240

SimilarityBefore ==
    get_repos_similarity_to_user(
        subjects, last.viewer,
        [i \in DOMAIN last.candidates |-> last.candidates[i].item_id])

\* The viewer had an exposure record of the item before the last build.
ShownBefore(item_id) == <<last.viewer, "repo", item_id>> \in DOMAIN last.before

\* The last build ranked several repositories, all of one similarity, of
\* which one had been served once and the others never.
OneServedOnce ==
    /\ last.op = "feed"
    /\ "source" \notin DOMAIN last
    /\ Cardinality(DOMAIN SimilarityBefore) >= 2
    /\ \A a, b \in DOMAIN SimilarityBefore : SimilarityBefore[a] = SimilarityBefore[b]
    /\ Cardinality({id \in DOMAIN SimilarityBefore : ShownBefore(id)}) = 1
    /\ \A id \in DOMAIN SimilarityBefore :
          ShownBefore(id) => last.before[<<last.viewer, "repo", id>>].times_shown = 1

\* C17: rotation.  When the candidates of a viewer have the same similarity
\* and one of them was served once and the others never, the next build
\* ranks the served one strictly below every one never shown: its score is
\* lower, and it is on the page only after all of them.
C17_Rotation ==
    OneServedOnce =>
        /\ \A r, q \in DOMAIN RankedBefore :
              (ShownBefore(RankedBefore[r].item_id)
               /\ ~ShownBefore(RankedBefore[q].item_id))
                  => RankedBefore[r].score < RankedBefore[q].score
        /\ \A i \in DOMAIN last.items :
              ShownBefore(last.items[i].item_id) =>
                  \A id \in DOMAIN SimilarityBefore :
                      ~ShownBefore(id) =>
                          \E j \in 1..(i - 1) : last.items[j].item_id = id

\* The build after the one that served the first candidate returned both
\* repositories, the one served before in the second place.
C17_Witness ==
    /\ OneServedOnce
    /\ Len(last.items) = 2
    /\ ShownBefore(last.items[2].item_id)
    /\ last.candidates[1].item_id = last.items[2].item_id

----------------------------------------------------------------------------
(* The selection of a candidate as a function: select_best_repo_candidate  *)
(* of db.py on the rows that compete for the name lib of an author, in     *)
(* every order.                                                            *)

\* The repositories named lib.
SelectIds == {"alice/lib", "bob/lib", "carol/lib"}

\* The rows of a repository that can compete: with no commit days, none or
\* five of them, written at the time 1 or 2.
SelectRows ==
    [subject_id : SelectIds, user_commit_days : {None, Some(0), Some(5)},
     updated_at : {1, 2}]

\* The lists of rows of pairwise different repositories.
SelectLists ==
    UNION {{c \in [1..n -> SelectRows] :
               \A i, j \in 1..n : c[i].subject_id = c[j].subject_id => i = j} :
           n \in 1..Cardinality(SelectIds)}

\* The orders of n rows.
Orders(n) == {p \in [1..n -> 1..n] : \A i, j \in 1..n : p[i] = p[j] => i = j}

\* The selection among candidates for the author: the order the rows came
\* in, what was selected from the rows as given (first), and what is
\* selected from them in the order.
Selected(candidates, author_username, order) ==
    [op |-> "select", author |-> author_username, candidates |-> candidates,
     order |-> order,
     first |-> select_best_repo_candidate(candidates, author_username),
     best |-> select_best_repo_candidate(
                  [i \in DOMAIN candidates |-> candidates[order[i]]], author_username)]

InitSelect ==
    /\ now = 1
    /\ work_items = {}
    /\ tx = [c \in Conns |-> NoTx]
    /\ subjects = EmptyFn
    /\ links = {}
    /\ recommendations = EmptyFn
    /\ run = NoRun
    /\ \E candidates \in SelectLists, author_username \in {"alice", "dave"} :
          last = Selected(candidates, author_username,
                          [i \in DOMAIN candidates |-> i])

\* The same rows come in another order.
Reorder(order) ==
    /\ last' = Selected(last.candidates, last.author, order)
    /\ UNCHANGED <<now, work_items, tx, subjects, links, recommendations, run>>

NextSelect == \E order \in Orders(Len(last.candidates)) : Reorder(order)

SpecSelect == InitSelect /\ [][NextSelect]_vars

\* The metric, the external flag and the write time of a row, as the claim
\* states them.
Metric(row) == IF row.user_commit_days # None THEN row.user_commit_days[1] ELSE 0 - 1

ExternalFlag(row) ==
    IF ~OwnedBy(row.subject_id, last.author) THEN 1 ELSE 0

\* The row a has a greater key than the row b.
Beats(a, b) ==
    \/ Metric(a) > Metric(b)
    \/ Metric(a) = Metric(b) /\ ExternalFlag(a) > ExternalFlag(b)
    \/ Metric(a) = Metric(b) /\ ExternalFlag(a) = ExternalFlag(b)
       /\ a.updated_at > b.updated_at

\* The positions, in the order the rows came in, of the rows no row beats.
Maxima ==
    {i \in DOMAIN last.candidates :
        \A j \in DOMAIN last.candidates :
            ~Beats(last.candidates[last.order[j]], last.candidates[last.order[i]])}

\* C18, as claimed: the selection does not depend on the order of the
\* candidates; with equal metrics a candidate of another owner is selected
\* wherever it stands.
C18_OrderIndependent ==
    /\ last.best = last.first
    /\ ((\A i, j \in DOMAIN last.candidates :
            Metric(last.candidates[i]) = Metric(last.candidates[j]))
        /\ \E i \in DOMAIN last.candidates : ExternalFlag(last.candidates[i]) = 1)
          => ExternalFlag(last.best) = 1

\* C18, amended: the selection does not depend on the order of the
\* candidates when one candidate has the greatest key; when several have
\* it, the first of them in the order is selected.  With equal metrics a
\* candidate of another owner is selected wherever it stands.
C18_OrderIndependentUnlessTied ==
    /\ Cardinality(Maxima) = 1 => last.best = last.first
    /\ \E i \in Maxima :
          /\ last.best = last.candidates[last.order[i]]
          /\ \A j \in Maxima : i <= j
    /\ ((\A i, j \in DOMAIN last.candidates :
            Metric(last.candidates[i]) = Metric(last.candidates[j]))
        /\ \E i \in DOMAIN last.candidates : ExternalFlag(last.candidates[i]) = 1)
          => ExternalFlag(last.best) = 1

\* Three rows of five commit days came with the row of the author first and
\* then in the reverse order, the two others written at different times:
\* the same row of another owner was selected both times.
C18_Witness ==
    /\ Len(last.candidates) = 3
    /\ \A i \in 1..3 : Metric(last.candidates[i]) = 5
    /\ ExternalFlag(last.candidates[1]) = 0
    /\ last.order = [i \in 1..3 |-> 4 - i]
    /\ Cardinality(Maxima) = 1
    /\ ExternalFlag(last.best) = 1
    /\ last.best = last.first

\* C19: the selected candidate is one of the candidates and has the
\* greatest key: no candidate has more commit days (none counting as -1),
\* none with the same commit days is of another owner when it is not, and
\* none with the same commit days and the same flag was written later.
C19_LexicographicMaximum ==
    /\ \E i \in DOMAIN last.candidates : last.best = last.candidates[i]
    /\ \A i \in DOMAIN last.candidates :
          /\ Metric(last.candidates[i]) <= Metric(last.best)
          /\ Metric(last.candidates[i]) = Metric(last.best)
                => ExternalFlag(last.candidates[i]) <= ExternalFlag(last.best)
          /\ (Metric(last.candidates[i]) = Metric(last.best)
              /\ ExternalFlag(last.candidates[i]) = ExternalFlag(last.best))
                => last.candidates[i].updated_at <= last.best.updated_at

\* The repository of the author, written first, was selected for its commit
\* days against two repositories of other owners written later, one with
\* zero commit days and one whose commit days are absent.
C19_Witness ==
    /\ Len(last.candidates) = 3
    /\ ExternalFlag(last.best) = 0
    /\ last.best.updated_at = 1
    /\ Metric(last.best) = 5
    /\ \E i, j \in 1..3 :
          /\ Metric(last.candidates[i]) = 0 - 1
          /\ Metric(last.candidates[j]) = 0
          /\ last.candidates[i].updated_at = 2
          /\ last.candidates[j].updated_at = 2
    /\ last.order # [i \in 1..3 |-> i]

\* C20: a stage invocation that ends without success leaves the work item
\* of the stage and the key failed.  For every key of an invocation that
\* was not skipped: when the stage raised, or the work item is not
\* succeeded afterwards, the work item is failed.
C20_FailureIsRecorded ==
    (last.op = "stage" /\ last.outcome # "skipped") =>
        \A i \in DOMAIN last.ids :
            LET status == StatusOf(work_items, last.kind, last.subject_type, last.ids[i])
            IN  (last.outcome = "raised" \/ status # "succeeded") => status = "failed"

----------------------------------------------------------------------------
(* Error handling of the stages and of the pipeline run.                   *)

\* The row a stage invocation left for its i-th subject.
RowAfter(i) ==
    get_work_item(work_items, last.kind, last.subject_type, last.ids[i])

\* The output a succeeded row of the kind records an empty result with.
EmptyOutput(kind, output) ==
    \/ kind = "generate_repo_blurb" /\ output = Some([description_len |-> 0])
    \/ kind = "extract_repo_kind" /\ output = Some([kind |-> ""])

\* C21: a stage records succeeded only when it produced its result: after an
\* invocation that did its work, no work item of the stage is succeeded with
\* an empty result (a blurb of length zero, an empty kind); when the provider
\* returned nothing or failed, the work item is failed.
C21_SucceededOnlyWithResult ==
    (last.op = "stage" /\ last.outcome # "skipped") =>
        \A i \in DOMAIN last.ids :
            RowAfter(i) # None =>
                ~(/\ RowAfter(i)[1].status = "succeeded"
                  /\ EmptyOutput(last.kind, RowAfter(i)[1].output_json))

\* _run_worker has returned to its caller after materialize took every step.
RunReturned == RunCompleted /\ run.returned # None

\* The invocations of the run whose work item is not succeeded now.
EndedWithoutSuccess ==
    {e \in run.log :
        StatusOf(work_items, e.kind, IF e.kind \in USER_KINDS THEN "user" ELSE "repo",
                 e.id) # "succeeded"}

\* C22: the aggregate result of a run is success if and only if no stage
\* the run invoked ended without success: no step of the run failed and the
\* work item of every stage the run invoked is succeeded.
C22_SuccessIffNoStageFailed ==
    RunReturned =>
        (run.returned[1].value <=>
            /\ \A a \in DOMAIN Assets : run.step[a] # "failed"
            /\ EndedWithoutSuccess = {})

\* C23: the top-level invocation never raises: in every state, a run whose
\* process is alive is either in progress or its handler (_run_worker or
\* restart_from) has returned a boolean to its caller without raising,
\* whatever its steps did and also when the orchestrator itself raised.
C23_NeverRaises ==
    (run.n >= 1 /\ ~run.crashed) =>
        \/ run.phase = "running" /\ run.returned = None
        \/ /\ run.phase = "idle"
           /\ run.returned # None
           /\ ~run.returned[1].raised
           /\ run.returned[1].value \in BOOLEAN

----------------------------------------------------------------------------
(* The order of the steps of a run: the executor takes one step at a time, *)
(* any step whose declared upstream steps are over.                        *)

\* The stages of the critical path, in the order of the pipeline.
CriticalPath ==
    <<"fetch_profile_asset", "fetch_repos_asset", "select_highlighted_repos_asset",
      "generate_repo_blurb_asset", "embed_repo_asset", "embed_user_profile_asset">>

\* The steps that the declared deps allow the executor to take next.
Executable ==
    {a \in DOMAIN Assets :
        run.step[a] = "todo" /\ \A d \in Assets[a].deps : run.step[d] # "todo"}

\* _run_worker(username): a run of every asset begins; started lists the
\* steps in the order the executor took them.
Materialize(username) ==
    /\ run.n = 0
    /\ run' = [phase |-> "running", n |-> 1, username |-> username,
               faults |-> 0, crashed |-> FALSE, after_crash |-> FALSE,
               step |-> [a \in DOMAIN Assets |-> "todo"],
               at_trigger |-> work_items, log |-> {}, returned |-> None,
               started |-> <<>>, handler |-> "_run_worker"]
    /\ last' = [op |-> "trigger", username |-> username]
    /\ UNCHANGED <<now, work_items, tx, subjects, links, recommendations>>

\* What the run becomes when the step of asset ends with outcome.
Executed(asset, outcome, log, faulty) ==
    LET step == [run.step EXCEPT ![asset] = outcome]
        over == \A a \in DOMAIN Assets : step[a] # "todo"
    IN  [run EXCEPT !.step = step,
                    !.log = run.log \cup log,
                    !.faults = run.faults + (IF faulty THEN 1 ELSE 0),
                    !.started = Append(run.started, asset),
                    !.phase = IF over THEN "idle" ELSE "running",
                    !.returned = IF over
                                 THEN Some(Respond(run.handler, materialize(step)))
                                 ELSE None]

\* The executor takes an executable step: it skips it when a step upstream
\* failed or was skipped, and runs the body of the asset otherwise.
ExecuteStep(asset, x) ==
    /\ run.phase = "running"
    /\ asset \in Executable
    /\ LET blocked == \E d \in Assets[asset].deps : run.step[d] \in {"failed", "skipped"}
           faulty == x # GoodAnswer(asset)
           Ran(res) ==
               /\ run' = Executed(asset, IF res.ok THEN "success" ELSE "failed",
                                  res.log, faulty)
               /\ last' = [op |-> "step", asset |-> asset,
                           outcome |-> IF res.ok THEN "success" ELSE "failed"]
               /\ now' = now + 1
               /\ work_items' = res.db.work_items
               /\ subjects' = res.db.subjects
               /\ links' = res.db.links
       IN  IF blocked
           THEN /\ ~faulty
                /\ run' = Executed(asset, "skipped", {}, FALSE)
                /\ last' = [op |-> "step", asset |-> asset, outcome |-> "skipped"]
                /\ UNCHANGED <<now, work_items, subjects, links>>
           ELSE /\ faulty => run.faults < MaxFaults
                /\ Ran(asset_body(Database, asset, run.username, x, now))
    /\ UNCHANGED <<tx, recommendations>>

NextOrder ==
    \/ \E u \in StageUsers : Materialize(u)
    \/ \E a \in DOMAIN Assets : \E x \in AnswersOf(a) : ExecuteStep(a, x)

SpecOrder == InitRun /\ [][NextOrder]_vars

\* The position of a step in the order the executor took the steps, zero
\* when the step was not taken.
StartedAt(asset) ==
    IF \E i \in DOMAIN run.started : run.started[i] = asset
    THEN CHOOSE i \in DOMAIN run.started : run.started[i] = asset
    ELSE 0

\* C24: in a run the stages of the critical path execute one after another
\* in the order of CriticalPath: a stage of the path that has started was
\* started after its predecessor on the path had finished.
C24_CriticalPathInOrder ==
    run.n >= 1 =>
        \A i \in 2..Len(CriticalPath) :
            StartedAt(CriticalPath[i]) > 0 =>
                /\ StartedAt(CriticalPath[i - 1]) > 0
                /\ StartedAt(CriticalPath[i - 1]) < StartedAt(CriticalPath[i])

----------------------------------------------------------------------------
(* Two concurrent runs for one username: each is a thread started by       *)
(* _run_worker_async, and each executes fetch_profile(username) statement  *)
(* by statement on a connection of its own.  There is no lock but the      *)
(* unique index of work_items.                                             *)

\* Each thread is started at most MaxStarts times.
MaxStarts == 2

RaceUser == "alice"

RaceKey == WorkKey("fetch_profile", "user", RaceUser)

\* What GitHubClient.get_user may answer: None when it raises.
RaceProfiles ==
    {None, Some(GhProfile), Some([login |-> Some("alice"), bio |-> Some("ops")])}

InitRace ==
    /\ now = 1
    /\ work_items = {}
    /\ tx = [c \in Conns |-> NoTx]
    /\ subjects = EmptyFn
    /\ links = {}
    /\ recommendations = EmptyFn
    /\ run = [pc |-> [c \in Conns |-> "idle"], starts |-> [c \in Conns |-> 0],
              got |-> [c \in Conns |-> None], wrote |-> [c \in Conns |-> None],
              calls |-> [c \in Conns |-> 0], order |-> <<>>]
    /\ last = [op |-> "init"]

\* The thread c moves to the statement at; the database is left alone.
Moved(c, at, r) ==
    /\ run' = [r EXCEPT !.pc[c] = at]
    /\ last' = [op |-> "race", conn |-> c, from |-> run.pc[c], at |-> at]
    /\ UNCHANGED <<now, work_items, subjects, links, recommendations>>

\* _run_worker_async(username): a thread is started; its step calls
\* fetch_profile, which opens a connection.
RaceStart(c) ==
    /\ run.pc[c] = "idle"
    /\ run.starts[c] < MaxStarts
    /\ Moved(c, "check", [run EXCEPT !.starts[c] = @ + 1, !.got[c] = None])
    /\ UNCHANGED tx

\* if _already_succeeded(conn, "fetch_profile", "user", username): return
RaceCheck(c) ==
    /\ run.pc[c] = "check"
    /\ Moved(c, IF _already_succeeded(View(c), "fetch_profile", "user", RaceUser)
                THEN "idle" ELSE "set_running", run)
    /\ UNCHANGED tx

\* set_work_status(conn, "fetch_profile", "user", username, "running"): the
\* statement waits while another transaction holds a write of the key.
RaceSetRunning(c) ==
    /\ run.pc[c] = "set_running"
    /\ ~MustWait(c, RaceKey)
    /\ tx' = [tx EXCEPT ![c] =
                Wrote(c, set_work_status(View(c), AllRows, "fetch_profile", "user",
                                         RaceUser, "running", None, now))]
    /\ Moved(c, "get_user", run)

\* profile = client.get_user(username); when it raises the thread ends and
\* the connection is dropped with its transaction.
RaceGetUser(c, profile) ==
    /\ run.pc[c] = "get_user"
    /\ tx' = [tx EXCEPT ![c] = IF profile = None THEN NoTx ELSE @]
    /\ Moved(c, IF profile = None THEN "idle" ELSE "store",
             [run EXCEPT !.got[c] = profile, !.calls[c] = @ + 1])

\* upsert_user_subject(...) and set_work_status(..., "succeeded", output);
\* the subject is written to the table at the commit.
RaceStore(c) ==
    /\ run.pc[c] = "store"
    /\ tx' = [tx EXCEPT ![c] =
                Wrote(c, set_work_status(View(c), AllRows, "fetch_profile", "user",
                                         RaceUser, "succeeded",
                                         Some([profile_found |-> TRUE]), now))]
    /\ run' = [run EXCEPT !.pc[c] = "commit",
                          !.wrote[c] = Some([processed_at |-> Some(now),
                                             bio |-> run.got[c][1].bio])]
    /\ now' = now + 1
    /\ last' = [op |-> "race", conn |-> c, from |-> "store", at |-> "commit"]
    /\ UNCHANGED <<work_items, subjects, links, recommendations>>

\* conn.commit()
RaceCommit(c) ==
    /\ run.pc[c] = "commit"
    /\ work_items' = View(c)
    /\ subjects' =
          upsert_subject(subjects, "user", RaceUser,
              UserSubject(Some(Coalesce(run.got[c][1].login, Some(RaceUser))[1]),
                          run.got[c][1].bio, None, <<>>, FALSE),
              run.wrote[c][1].processed_at[1])
    /\ tx' = [tx EXCEPT ![c] = NoTx]
    /\ run' = [run EXCEPT !.pc[c] = "idle", !.order = Append(@, c)]
    /\ last' = [op |-> "race", conn |-> c, from |-> "commit", at |-> "idle"]
    /\ UNCHANGED <<now, links, recommendations>>

\* The process of the thread dies inside fetch_profile: its connection is
\* dropped with whatever it had not committed.
RaceCrash(c) ==
    /\ run.pc[c] \in {"set_running", "get_user", "store", "commit"}
    /\ tx' = [tx EXCEPT ![c] = NoTx]
    /\ run' = [run EXCEPT !.pc[c] = "idle"]
    /\ last' = [op |-> "crash", conn |-> c, from |-> run.pc[c], at |-> "idle"]
    /\ UNCHANGED <<now, work_items, subjects, links, recommendations>>

NextRace ==
    \/ \E c \in Conns : RaceStart(c)
    \/ \E c \in Conns : RaceCheck(c)
    \/ \E c \in Conns : RaceSetRunning(c)
    \/ \E c \in Conns, p \in RaceProfiles : RaceGetUser(c, p)
    \/ \E c \in Conns : RaceStore(c)
    \/ \E c \in Conns : RaceCommit(c)
    \/ \E c \in Conns : RaceCrash(c)

SpecRace == InitRace /\ [][NextRace]_vars

\* The rows of the ledger for the key of the stage.
RaceRows == {r \in work_items : KeyOf(r) = RaceKey}

\* The thread that committed last.
LastCommitter == run.order[Len(run.order)]

\* C25: when the runs have finished and at least one has committed, the
\* ledger holds exactly one row for the key of the stage; it is succeeded
\* and carries the output and the time of the run that committed last, and
\* the subject is the one that run stored.
C25_LastCommitWins ==
    ((\A c \in Conns : run.pc[c] = "idle") /\ run.order # <<>>) =>
        /\ Cardinality(RaceRows) = 1
        /\ \A r \in RaceRows :
              /\ r.status = "succeeded"
              /\ r.output_json = Some([profile_found |-> TRUE])
              /\ r.processed_at = run.wrote[LastCommitter][1].processed_at
        /\ subjects[<<"user", RaceUser>>].data.bio = run.wrote[LastCommitter][1].bio

\* Both runs passed the succeeded check, both called the provider for the
\* same key, with different answers, and both have committed.
C25_Witness ==
    /\ \A c \in Conns : run.pc[c] = "idle" /\ run.starts[c] = 1 /\ run.calls[c] = 1
    /\ Len(run.order) = 2
    /\ run.wrote["c1"][1].bio # run.wrote["c2"][1].bio
    /\ Cardinality(RaceRows) = 1

\* C26: every status a stage writes is committed before the stage goes on:
\* a stage that has written running and is at the call of its provider
\* holds no uncommitted write of its key, and the ledger shows the key as
\* running or as what a later commit made of it.
C26_StatusCommittedAtOnce ==
    \A c \in Conns :
        run.pc[c] = "get_user" =>
            /\ RaceKey \notin Written(c)
            /\ StatusOf(work_items, "fetch_profile", "user", RaceUser) # "absent"

----------------------------------------------------------------------------
(* The handlers that delete and restart, on a database where two users     *)
(* link to the same repositories: delete_user and restart_from of api.py.  *)
(* restart_from resets and then materializes the selected assets.          *)

AdminUsers == {"alice", "bob"}

\* What GitHub lists for bob, and what it yields for the contribution of
\* bob to the repository of alice.
GhBobLib ==
    [full_name |-> "bob/lib", name |-> "lib", description |-> None,
     language |-> Some("Go"), fork |-> FALSE, recent |-> TRUE, days |-> 0,
     pushed_at |-> Some(1)]

GhBobKit ==
    [full_name |-> "bob/kit", name |-> "kit", description |-> Some("A"),
     language |-> Some("Go"), fork |-> FALSE, recent |-> TRUE, days |-> 0,
     pushed_at |-> Some(2)]

GhAppContributed ==
    [full_name |-> "alice/app", name |-> "app", description |-> Some("cli tool "),
     language |-> Some("Python"), meta_ok |-> TRUE, recent |-> TRUE, days |-> 5,
     pushed_at |-> Some(2)]

\* The database after the pipeline of alice (who contributed to bob/lib)
\* and of bob (who contributed to alice/app) ran their stages.
SeedShared ==
    extract_repo_kind(
        generate_repo_blurb(
            generate_repo_blurb(
                generate_repo_blurb(
                    fetch_repos(
                        fetch_profile(SeedEmbedded, "bob",
                                      Some([login |-> Some("bob"), bio |-> Some("ops")]),
                                      0).db,
                        "bob", Some(<<GhBobLib, GhBobKit>>), <<GhAppContributed>>, 0).db,
                    "bob/lib", "a library", 0).db,
                "bob/kit", "a kit", 0).db,
            "alice/app", "a cli tool", 0).db,
        "alice/app", "cli tool", 0).db

\* The same after extract_repo_kind failed to reach bob/kit and the blurb of
\* bob/lib was reset.
SeedSharedPending ==
    Db(reset_user_repo_work_items_to_pending(SeedShared.work_items, SeedShared.links,
                                             "bob", {"generate_repo_blurb"}),
       SeedShared.subjects, SeedShared.links)

AdminSeeds == {SeedEmbedded, SeedShared, SeedSharedPending}

InitAdmin ==
    /\ now = 1
    /\ \E db \in AdminSeeds :
          /\ work_items = db.work_items
          /\ subjects = db.subjects
          /\ links = db.links
    /\ tx = [c \in Conns |-> NoTx]
    /\ recommendations = EmptyFn
    /\ run = NoRun
    /\ last = [op |-> "init"]

\* delete_user(username): delete_user_completely and the commit.
AdminDeleteUser(username) ==
    /\ run.phase = "idle"
    /\ LET Deleted(db) ==
               /\ work_items' = db.work_items
               /\ subjects' = db.subjects
               /\ links' = db.links
       IN  Deleted(delete_user_completely(Database, username))
    /\ last' = [op |-> "delete", username |-> username, before |-> Database]
    /\ UNCHANGED <<now, tx, recommendations, run>>

\* restart_from(username) with ?start=start, up to the call of materialize:
\* the resets, the commit, and a run of the selected assets begins.
AdminRestartFrom(username, start) ==
    /\ run.phase = "idle"
    /\ run.n = 0
    /\ LET Reset(db) ==
               /\ work_items' = db.work_items
               /\ subjects' = db.subjects
               /\ links' = db.links
       IN  Reset(restart_from_reset(Database, username, KindsToReset(start, "user"),
                                    KindsToReset(start, "repo")))
    /\ run' = [phase |-> "running", n |-> 1, username |-> username,
               faults |-> 0, crashed |-> FALSE, after_crash |-> FALSE,
               step |-> [a \in DOMAIN Assets |->
                            IF a \in Downstream({start}) THEN "todo" ELSE "unselected"],
               at_trigger |-> work_items, log |-> {}, returned |-> None,
               started |-> <<>>, handler |-> "restart_from", start |-> start]
    /\ last' = [op |-> "reset", username |-> username, start |-> start,
                kinds |-> KindsToReset(start, "user") \cup KindsToReset(start, "repo"),
                before |-> Database]
    /\ UNCHANGED <<now, tx, recommendations>>

\* materialize raises inside restart_from (an error of the orchestrator).
AdminMaterializeRaises ==
    /\ run.phase = "running"
    /\ run' = [run EXCEPT !.phase = "idle",
                          !.returned = Some(Respond(run.handler,
                                                    [raised |-> TRUE, success |-> FALSE]))]
    /\ last' = [op |-> "error", username |-> run.username]
    /\ UNCHANGED <<now, work_items, tx, subjects, links, recommendations>>

\* The executor of the run takes the selected steps in the order of
\* RunOrder.
AdminStep(asset, x) ==
    /\ run.phase = "running"
    /\ asset = NextAsset
    /\ ExecuteStep(asset, x)

NextAdmin ==
    \/ \E u \in AdminUsers : AdminDeleteUser(u)
    \/ \E u \in StageUsers, a \in DOMAIN Assets : AdminRestartFrom(u, a)
    \/ \E a \in DOMAIN Assets : \E x \in AnswersOf(a) : AdminStep(a, x)
    \/ AdminMaterializeRaises

SpecAdmin == InitAdmin /\ [][NextAdmin]_vars

\* The repositories that a user other than username links to in lnks.
LinkedByOthers(lnks, username) ==
    {l.repo_id : l \in {x \in lnks : x.username # username}}

\* The work items of the repository repo_id.
RepoItems(w, repo_id) ==
    {r \in w : r.subject_type = "repo" /\ r.subject_id = repo_id}

\* C27: delete_user_completely(A) removes the links of A and leaves alone
\* what another user still links to: after the delete A has no link, and
\* the subject and the work items of every repository that another user
\* links to are as they were before.
C27_DeleteKeepsShared ==
    last.op = "delete" =>
        /\ \A l \in links : l.username # last.username
        /\ \A repo_id \in LinkedByOthers(last.before.links, last.username) :
              /\ get_subject(subjects, "repo", repo_id)
                 = get_subject(last.before.subjects, "repo", repo_id)
              /\ RepoItems(work_items, repo_id)
                 = RepoItems(last.before.work_items, repo_id)

\* The key of the exposure record that the build read to compute the
\* fatigue penalty of the i-th item of its page.
FatigueKey(i) == <<last.viewer, last.items[i].item_type, last.items[i].item_id>>

\* C28: the exposure record that a feed build increments for a served item
\* is the one it read for the fatigue penalty of the item, for a community
\* and for a trending build: after a build, the record under the key read
\* for each item of the page has one show more than before, so the next
\* build finds the item penalised.
C28_BumpsTheKeyItRead ==
    last.op = "feed" =>
        \A i \in DOMAIN last.items :
            /\ FatigueKey(i) \in DOMAIN recommendations
            /\ recommendations[FatigueKey(i)].times_shown =
                  (IF FatigueKey(i) \in DOMAIN last.before
                   THEN last.before[FatigueKey(i)].times_shown ELSE 0) + 1
            /\ recommendations[FatigueKey(i)].last_shown_at = Some(last.at)

\* The work item r is one that a reset of kinds for username aims at, given
\* the links lnks.
InResetScope(r, username, kinds, lnks) ==
    /\ r.kind \in kinds
    /\ \/ r.subject_type = "user" /\ r.subject_id = username
       \/ /\ r.subject_type = "repo"
          /\ \E l \in lnks : l.username = username /\ l.repo_id = r.subject_id

\* C29: a reset of the kinds K for the user A changes only the work items
\* whose kind is in K and whose subject is A or a repository linked to A:
\* every other work item is as it was before, and every row of the ledger
\* is a row that was there before (none is created); the items in scope
\* are pending with no output.
C29_ResetFrame ==
    last.op = "reset" =>
        /\ \A q \in last.before.work_items :
              IF InResetScope(q, last.username, last.kinds, last.before.links)
              THEN [q EXCEPT !.status = "pending", !.output_json = None,
                             !.processed_at = None] \in work_items
              ELSE q \in work_items
        /\ \A r \in work_items : \E q \in last.before.work_items : q.id = r.id
        /\ Cardinality(work_items) = Cardinality(last.before.work_items)

\* A reset for alice of the blurb and what is downstream of it left alone
\* the succeeded blurb of a repository of bob that alice does not link to,
\* and reset the blurb of her own repository.
C29_Witness ==
    /\ last.op = "reset"
    /\ last.username = "alice"
    /\ "generate_repo_blurb" \in last.kinds
    /\ StatusOf(last.before.work_items, "generate_repo_blurb", "repo", "alice/app")
       = "succeeded"
    /\ StatusOf(work_items, "generate_repo_blurb", "repo", "alice/app") = "pending"
    /\ StatusOf(work_items, "generate_repo_blurb", "repo", "bob/kit") = "succeeded"
    /\ StatusOf(work_items, "fetch_repos", "user", "bob") = "succeeded"

\* The assets that asset depends on in the declared graph, directly or not.
RECURSIVE Upstream(_)
Upstream(asset) ==
    Assets[asset].deps \cup UNION {Upstream(d) : d \in Assets[asset].deps}

\* The start stage and every stage downstream of it in the declared graph.
StartAndDownstream(start) ==
    {a \in DOMAIN Assets : a = start \/ start \in Upstream(a)}

\* The work-item kinds of the start stage of the run and of the stages
\* downstream of it.
RestartedKinds == {Assets[a].kind : a \in StartAndDownstream(run.start)}

\* C30: restart_from(start) resets exactly the kinds of the start stage and
\* of the stages downstream of it, for the user and the repositories linked
\* to the user, and then runs exactly those stages; the work items of every
\* other stage are, throughout the run, the rows they were before the reset.
C30_RestartFromFrame ==
    (run.n >= 1 /\ last.op \in {"reset", "step", "error"}) =>
        /\ last.op = "reset" =>
              /\ last.kinds = RestartedKinds
              /\ \A q \in last.before.work_items :
                    InResetScope(q, run.username, RestartedKinds, links) =>
                        StatusOf(work_items, q.kind, q.subject_type, q.subject_id)
                        = "pending"
        /\ \A a \in DOMAIN Assets :
              run.step[a] = "unselected" <=> a \notin StartAndDownstream(run.start)
        /\ \A e \in run.log : e.kind \in RestartedKinds
        /\ \A q \in run.at_trigger : q.kind \notin RestartedKinds => q \in work_items
        /\ \A r \in work_items : r.kind \notin RestartedKinds => r \in run.at_trigger

\* A restart from the blurb stage is over: the blurb of the repository of
\* alice was reset and generated again, every selected step succeeded, and
\* the work items of fetch_repos and of the selection are as before.
C30_Witness ==
    /\ run.n >= 1
    /\ last.op = "step"
    /\ run.phase = "idle"
    /\ run.start = "generate_repo_blurb_asset"
    /\ \A a \in StartAndDownstream(run.start) : run.step[a] = "success"
    /\ \E e \in run.log :
          e.kind = "generate_repo_blurb" /\ e.before = "pending" /\ e.executed
    /\ \E e \in run.log : e.kind = "extract_repo_kind" /\ e.executed
    /\ StatusOf(work_items, "generate_repo_blurb", "repo", "alice/app") = "succeeded"
    /\ get_work_item(work_items, "fetch_repos", "user", "alice")
       = get_work_item(run.at_trigger, "fetch_repos", "user", "alice")
    /\ StatusOf(work_items, "select_highlighted_repos", "user", "alice") = "succeeded"

\* The deferred enrichment stages.
Deferred ==
    {"enhance_repo_media_asset", "infer_user_theme_asset",
     "extract_repo_emphasis_asset", "extract_repo_keywords_asset",
     "extract_repo_kind_asset"}

\* C31: in a run no deferred enrichment stage starts before the terminal
\* stage of the critical path, embed_user_profile, has finished, in any
\* order of the steps that the declared deps allow.
C31_DeferredAfterCriticalPath ==
    run.n >= 1 =>
        \A d \in Deferred :
            StartedAt(d) > 0 =>
                /\ StartedAt(CriticalPath[Len(CriticalPath)]) > 0
                /\ StartedAt(CriticalPath[Len(CriticalPath)]) < StartedAt(d)

\* Every step of a run succeeded; the media stage, which reads only what
\* fetch_repos wrote, was taken after the six stages of the critical path
\* and the feed build, and fetch_profile was not the first step.
C31_Witness ==
    /\ run.n >= 1
    /\ run.phase = "idle"
    /\ \A a \in DOMAIN Assets : run.step[a] = "success"
    /\ StartedAt("enhance_repo_media_asset") = 8
    /\ StartedAt("fetch_profile_asset") > 1
    /\ \E e \in run.log : e.kind = "enhance_repo_media" /\ e.executed

\* The repositories get_user_repos selects for the user of the run.
SelectedForMedia ==
    LET user_repos == get_user_repos(subjects, links, run.username)
    IN  IF user_repos = None THEN {}
        ELSE {user_repos[1][i].subject_id : i \in 1..Len(user_repos[1])}

\* C32: after a run in which the body of enhance_repo_media_asset was
\* executed, every repository selected for the stage has an
\* enhance_repo_media work item that is succeeded or failed, also when the
\* stage failed for one of the repositories.
C32_FanOutReachesEveryRepo ==
    (RunCompleted /\ run.step["enhance_repo_media_asset"] \in {"success", "failed"}) =>
        \A id \in SelectedForMedia :
            StatusOf(work_items, "enhance_repo_media", "repo", id)
                \in {"succeeded", "failed"}

\* The candidates of the build whose subject has no embedding, and those
\* whose subject has one.
CandidatesWithout ==
    {last.candidates[i].item_id : i \in DOMAIN last.candidates}
        \cap {k[2] : k \in {x \in DOMAIN subjects :
                                 x[1] = "repo" /\ subjects[x].embedding = None}}

CandidatesWith ==
    {last.candidates[i].item_id : i \in DOMAIN last.candidates} \ CandidatesWithout

\* C33: a community feed build skips a candidate without an embedding: the
\* candidate is not on the page and its exposure record is neither created
\* nor changed, while every candidate with an embedding is on the page of a
\* viewer who has one when the limit leaves room for all.
C33_UnembeddedSkipped ==
    (last.op = "feed" /\ "source" \notin DOMAIN last) =>
        /\ \A id \in CandidatesWithout :
              /\ \A i \in DOMAIN last.items : last.items[i].item_id # id
              /\ <<last.viewer, "repo", id>> \notin DOMAIN recommendations
              /\ <<last.viewer, "repo", id>> \notin DOMAIN last.before
        /\ (~ViewerCannotRank /\ last.limit >= Cardinality(CandidatesWith)) =>
              CandidatesWith = {last.items[i].item_id : i \in DOMAIN last.items}

\* A build for a viewer with an embedding had a candidate without one and
\* returned, for the second time, the candidate that has one.
C33_Witness ==
    /\ last.op = "feed"
    /\ "source" \notin DOMAIN last
    /\ CandidatesWithout # {}
    /\ last.limit = 30
    /\ CandidatesWith = {last.items[i].item_id : i \in DOMAIN last.items}
    /\ \E i \in DOMAIN last.items :
          recommendations[<<last.viewer, "repo", last.items[i].item_id>>].times_shown = 2

----------------------------------------------------------------------------
(* The exposure records under every handler that touches a user: the feed  *)
(* builds, the feed step of a run, restart, restart-from, the deletion of  *)
(* a user and the clearing of a viewer's exposure history.                 *)

\* A mutant of delete_user_recommendations: the records of every viewer are
\* deleted.
delete_user_recommendations_all(recs, username) == EmptyFn

\* delete_user_recommendations(conn, username)
delete_user_recommendations(recs, username) ==
    [k \in {x \in DOMAIN recs : x[1] # username} |-> recs[k]]

\* POST /users/<username>/clear-recommendations
clear_recommendations(username) ==
    /\ recommendations' = delete_user_recommendations(recommendations, username)
    /\ last' = [op |-> "clear", viewer |-> username, before |-> recommendations]
    /\ UNCHANGED <<now, work_items, tx, subjects, links, run>>

\* DELETE /users/<username>
delete_user(username) ==
    Handled("delete", username, delete_user_completely(Database, username))

NextExposure ==
    \/ NextTrend
    \/ \E username \in {"alice", "bob"} : clear_recommendations(username)
    \/ \E username \in {"alice", "bob"} : delete_user(username)

SpecExposure == InitTrend /\ [][NextExposure]_vars

\* C34: in every step the exposure records that exist stay and their
\* times_shown does not decrease, except the records of the viewer whose
\* exposure history the step clears.
C34_TimesShownMonotone ==
    [][\A k \in DOMAIN recommendations :
          (last'.op = "clear" /\ last'.viewer = k[1])
          \/ /\ k \in DOMAIN recommendations'
             /\ recommendations'[k].times_shown >= recommendations[k].times_shown]_vars

\* The exposure history of alice was cleared when an item had been shown to
\* her twice, and a record of bob is still there.
C34_Witness ==
    /\ last.op = "clear"
    /\ last.viewer = "alice"
    /\ \E k \in DOMAIN last.before : k[1] = "alice" /\ last.before[k].times_shown = 2
    /\ \E k \in DOMAIN recommendations : k[1] = "bob"

----------------------------------------------------------------------------
(* Two threads, each with its own connection, execute stages that write    *)
(* the same repo subject.  A stage reads the subject, calls its provider,  *)
(* writes the whole subject back with one field changed, and commits.  A   *)
(* connection reads the committed rows and its own writes.                 *)

MergeRepo == "alice/app"

MergeKinds == {"extract_repo_emphasis", "extract_repo_keywords", "extract_repo_kind"}

InitMerge ==
    /\ now = 1
    /\ work_items = SeedBlurb.work_items
    /\ subjects = SeedBlurb.subjects
    /\ links = SeedBlurb.links
    /\ tx = [c \in Conns |-> NoTx]
    /\ recommendations = EmptyFn
    /\ run = [pc |-> [c \in Conns |-> "idle"], starts |-> [c \in Conns |-> 0],
              kind |-> [c \in Conns |-> "extract_repo_emphasis"],
              got |-> [c \in Conns |-> None], pending |-> [c \in Conns |-> None]]
    /\ last = [op |-> "init"]

\* The thread c moves to the statement at.
MergeMoved(c, at, r) ==
    /\ run' = [r EXCEPT !.pc[c] = at]
    /\ last' = [op |-> "merge", conn |-> c, from |-> run.pc[c], at |-> at]
    /\ UNCHANGED <<now, links, recommendations>>

\* A run reaches the invocation of the stage kind for the repository.
MergeStart(c, kind) ==
    /\ run.pc[c] = "idle"
    /\ run.starts[c] < MaxStarts
    /\ MergeMoved(c, "check", [run EXCEPT !.starts[c] = @ + 1, !.kind[c] = kind,
                                          !.got[c] = None, !.pending[c] = None])
    /\ UNCHANGED <<work_items, subjects, tx>>

\* if _already_succeeded(conn, kind, "repo", repo_id): return
MergeCheck(c) ==
    /\ run.pc[c] = "check"
    /\ MergeMoved(c, IF _already_succeeded(View(c), run.kind[c], "repo", MergeRepo)
                     THEN "idle" ELSE "set_running", run)
    /\ UNCHANGED <<work_items, subjects, tx>>

\* set_work_status(conn, kind, "repo", repo_id, "running")
MergeSetRunning(c) ==
    /\ run.pc[c] = "set_running"
    /\ ~MustWait(c, WorkKey(run.kind[c], "repo", MergeRepo))
    /\ tx' = [tx EXCEPT ![c] =
                Wrote(c, set_work_status(View(c), AllRows, run.kind[c], "repo",
                                         MergeRepo, "running", None, now))]
    /\ MergeMoved(c, "load", run)
    /\ UNCHANGED <<work_items, subjects>>

\* repo = get_repo_subject(conn, repo_id)
MergeLoad(c) ==
    /\ run.pc[c] = "load"
    /\ MergeMoved(c, "provider", [run EXCEPT !.got[c] = Some(subjects)])
    /\ UNCHANGED <<work_items, subjects, tx>>

\* The rest of a stage of kinds up to its commit, on the subject it loaded:
\* the call of the provider, which answers x, upsert_repo_subject (which
\* waits for a transaction that holds a write of the subject row) and
\* set_work_status.
MergeStore(c, kinds, x) ==
    /\ run.pc[c] = "provider"
    /\ run.kind[c] \in kinds
    /\ LET Stored(res) ==
               /\ res.db.subjects # run.got[c][1] =>
                     \A d \in Conns \ {c} : run.pending[d] = None
               /\ tx' = [tx EXCEPT ![c] = Wrote(c, res.db.work_items)]
               /\ MergeMoved(c, "commit",
                     [run EXCEPT !.pending[c] =
                         IF res.db.subjects # run.got[c][1]
                         THEN Some(res.db.subjects[<<"repo", MergeRepo>>].data)
                         ELSE None])
       IN  Stored(invoke_stage(Db(View(c), run.got[c][1], links), run.kind[c],
                               MergeRepo, x, now))
    /\ UNCHANGED <<work_items, subjects>>

\* conn.commit()
MergeCommit(c) ==
    /\ run.pc[c] = "commit"
    /\ work_items' = View(c)
    /\ subjects' = IF run.pending[c] = None THEN subjects
                   ELSE upsert_subject(subjects, "repo", MergeRepo, run.pending[c][1], now)
    /\ tx' = [tx EXCEPT ![c] = NoTx]
    /\ MergeMoved(c, "idle", [run EXCEPT !.pending[c] = None])

NextMerge ==
    \/ \E c \in Conns, kind \in MergeKinds : MergeStart(c, kind)
    \/ \E c \in Conns : MergeCheck(c)
    \/ \E c \in Conns : MergeSetRunning(c)
    \/ \E c \in Conns : MergeLoad(c)
    \/ \E c \in Conns, x \in Lists :
          MergeStore(c, {"extract_repo_emphasis", "extract_repo_keywords"}, x)
    \/ \E c \in Conns, x \in Phrases : MergeStore(c, {"extract_repo_kind"}, x)
    \/ \E c \in Conns : MergeCommit(c)

SpecMerge == InitMerge /\ [][NextMerge]_vars

\* The field of the subject that a stage writes.
FieldOf(kind, data) ==
    CASE kind = "extract_repo_emphasis" -> data.emphasis
      [] kind = "extract_repo_keywords" -> data.keywords
      [] kind = "extract_repo_kind" -> data.kind

\* C35: when both threads have finished, every field written by a stage
\* whose work item is succeeded is present on the repo subject.
C35_NoLostField ==
    (\A c \in Conns : run.pc[c] = "idle") =>
        \A kind \in MergeKinds :
            StatusOf(work_items, kind, "repo", MergeRepo) = "succeeded" =>
                FieldOf(kind, subjects[<<"repo", MergeRepo>>].data) # None

----------------------------------------------------------------------------
(* A restart while runs are executing fetch_repos for the same user.  The  *)
(* threads of the runs and the handler each have a connection of their     *)
(* own; the handler's statements wait for a transaction that holds a write *)
(* of a row they update.                                                   *)

\* At most MaxRestarts restarts are requested.
MaxRestarts == 2

FlightUser == "alice"

FlightKey == WorkKey("fetch_repos", "user", FlightUser)

\* The database is empty, or as a run and a restart after it left it.
InitFlight ==
    /\ now = 1
    /\ \E db \in {EmptyDb, restart(SeedBlurb, FlightUser)} :
          /\ work_items = db.work_items
          /\ subjects = db.subjects
          /\ links = db.links
    /\ tx = [c \in Conns |-> NoTx]
    /\ recommendations = EmptyFn
    /\ run = [pc |-> [c \in Conns |-> "idle"], starts |-> [c \in Conns |-> 0],
              began |-> [c \in Conns |-> 0], pending |-> [c \in Conns |-> None],
              clock |-> 0, restarts |-> 0, reset_at |-> 0, hit |-> FALSE,
              writer |-> None]
    /\ last = [op |-> "init"]

\* The thread c moves to the statement at.
FlightMoved(c, at, r) ==
    /\ run' = [r EXCEPT !.pc[c] = at]
    /\ last' = [op |-> "flight", conn |-> c, from |-> run.pc[c], at |-> at]
    /\ UNCHANGED <<now, work_items, subjects, links, recommendations>>

\* A run reaches fetch_repos(username): the execution begins.
FlightStart(c) ==
    /\ run.pc[c] = "idle"
    /\ run.starts[c] < MaxStarts
    /\ FlightMoved(c, "check", [run EXCEPT !.starts[c] = @ + 1, !.clock = @ + 1,
                                           !.began[c] = run.clock + 1,
                                           !.pending[c] = None])
    /\ UNCHANGED tx

\* if _already_succeeded(conn, "fetch_repos", "user", username): return
FlightCheck(c) ==
    /\ run.pc[c] = "check"
    /\ FlightMoved(c, IF _already_succeeded(View(c), "fetch_repos", "user", FlightUser)
                      THEN "idle" ELSE "set_running", run)
    /\ UNCHANGED tx

\* set_work_status(conn, "fetch_repos", "user", username, "running")
FlightSetRunning(c) ==
    /\ run.pc[c] = "set_running"
    /\ ~MustWait(c, FlightKey)
    /\ tx' = [tx EXCEPT ![c] =
                Wrote(c, set_work_status(View(c), AllRows, "fetch_repos", "user",
                                         FlightUser, "running", None, now))]
    /\ FlightMoved(c, "fetch", run)

\* The rest of fetch_repos up to its commit: the listings x of the client,
\* the upserts of the kept repositories and their links, and the succeeded
\* status.  When the client raises the connection is dropped.
FlightFetch(c, x) ==
    /\ run.pc[c] = "fetch"
    /\ LET Fetched(res) ==
               /\ tx' = [tx EXCEPT ![c] =
                           IF res.outcome = "raised" THEN NoTx
                           ELSE Wrote(c, res.db.work_items)]
               /\ FlightMoved(c, IF res.outcome = "raised" THEN "idle" ELSE "commit",
                     [run EXCEPT !.pending[c] =
                         IF res.outcome = "raised" THEN None
                         ELSE Some([subjects |-> res.db.subjects,
                                    links |-> res.db.links])])
       IN  Fetched(fetch_repos(Db(View(c), subjects, links), FlightUser,
                               x.repos, x.contributed, now))

\* conn.commit(): the rows the stage upserted replace the committed ones.
FlightCommit(c) ==
    /\ run.pc[c] = "commit"
    /\ work_items' = View(c)
    /\ subjects' = [k \in DOMAIN subjects \cup DOMAIN run.pending[c][1].subjects |->
                       IF k \in DOMAIN run.pending[c][1].subjects
                       THEN run.pending[c][1].subjects[k] ELSE subjects[k]]
    /\ links' = {l \in links :
                    \A p \in run.pending[c][1].links :
                        <<p.username, p.repo_id>> # <<l.username, l.repo_id>>}
                \cup run.pending[c][1].links
    /\ tx' = [tx EXCEPT ![c] = NoTx]
    /\ run' = [run EXCEPT !.pc[c] = "idle", !.pending[c] = None,
                          !.writer = Some([began |-> run.began[c]])]
    /\ last' = [op |-> "flight", conn |-> c, from |-> "commit", at |-> "idle"]
    /\ UNCHANGED <<now, recommendations>>

\* POST /users/<username>/restart up to its commit: the resets wait while
\* a thread holds an uncommitted write of a row they update.  The run it
\* queues is a later FlightStart.
FlightRestart ==
    /\ run.restarts < MaxRestarts
    /\ \A c \in Conns : \A r \in tx[c].gone : r.subject_id # FlightUser
    /\ LET Reset(db) ==
               /\ work_items' = db.work_items
               /\ subjects' = db.subjects
               /\ links' = db.links
       IN  Reset(restart(Database, FlightUser))
    /\ run' = [run EXCEPT !.restarts = @ + 1, !.clock = @ + 1,
                          !.reset_at = run.clock + 1,
                          !.hit = StatusOf(work_items, "fetch_repos", "user", FlightUser)
                                      # "absent"]
    /\ last' = [op |-> "restart", before |-> work_items]
    /\ UNCHANGED <<now, tx, recommendations>>

NextFlight ==
    \/ \E c \in Conns : FlightStart(c)
    \/ \E c \in Conns : FlightCheck(c)
    \/ \E c \in Conns : FlightSetRunning(c)
    \/ \E c \in Conns, x \in Listings : FlightFetch(c, x)
    \/ \E c \in Conns : FlightCommit(c)
    \/ FlightRestart

SpecFlight == InitFlight /\ [][NextFlight]_vars

\* C36: after a restart reset the fetch_repos work item of the user to
\* pending, a succeeded status of that item was committed by an execution
\* of fetch_repos that began after the restart.
C36_ResetNotUndone ==
    (/\ run.reset_at > 0
     /\ run.hit
     /\ StatusOf(work_items, "fetch_repos", "user", FlightUser) = "succeeded") =>
        /\ run.writer # None
        /\ run.writer[1].began > run.reset_at

\* C37: when a run has ended with the select_highlighted_repos work item of
\* its user succeeded, highlighted_repos of the user subject is the list in
\* the output of that work item, in whatever order the declared deps let
\* the steps be taken.
C37_HighlightsKept ==
    (/\ run.n >= 1
     /\ run.phase = "idle"
     /\ \A a \in DOMAIN Assets : run.step[a] # "todo"
     /\ StatusOf(work_items, "select_highlighted_repos", "user", run.username)
            = "succeeded") =>
        /\ get_user_subject(subjects, run.username) # None
        /\ get_user_subject(subjects, run.username)[1].highlighted_repos
               = HighlightedNames(work_items, run.username)

\* The invocations of the run that found their work item running.
FoundRunning == {e \in run.log : e.before = "running"}

\* C38: an invocation of a stage that finds its work item running executes
\* the stage, and once the stage has returned the item is succeeded or
\* failed: a running item left by a run that died does not stay running
\* past the next invocation of its stage.
C38_RunningNotStuck ==
    \A e \in FoundRunning :
        /\ e.executed
        /\ StatusOf(work_items, e.kind, IF e.kind \in USER_KINDS THEN "user" ELSE "repo",
                    e.id) \in {"succeeded", "failed"}

\* A run died inside embed_repos_batch, which had committed running; the
\* run triggered after it is over and its embed stage, invoked for the same
\* repository, executed and left the item succeeded.
C38_Witness ==
    /\ Retriggered
    /\ RunCompleted
    /\ \E e \in FoundRunning :
          /\ e.kind = "embed_repo"
          /\ e.worked
          /\ StatusOf(work_items, "embed_repo", "repo", e.id) = "succeeded"

\* The succeeded embed work items that carry a content hash.
EmbeddedItems ==
    {r \in work_items :
        /\ r.kind \in {"embed_repo", "embed_user_profile"}
        /\ r.status = "succeeded"
        /\ r.output_json # None
        /\ "content_hash" \in DOMAIN r.output_json[1]}

\* C39: in every committed state a succeeded work item has the data its
\* stage wrote on the subject: the user subject exists when fetch_profile
\* is succeeded, it carries the highlighted names of the output when
\* select_highlighted_repos is succeeded, and a subject carries an embedding
\* when its embed item is succeeded with a content hash.
C39_SucceededWithData ==
    /\ \A r \in work_items :
          (r.kind = "fetch_profile" /\ r.status = "succeeded") =>
              get_subject(subjects, "user", r.subject_id) # None
    /\ \A r \in work_items :
          (r.kind = "select_highlighted_repos" /\ r.status = "succeeded") =>
              /\ get_subject(subjects, "user", r.subject_id) # None
              /\ get_subject(subjects, "user", r.subject_id)[1].data.highlighted_repos
                     = r.output_json[1].repos
    /\ \A r \in EmbeddedItems :
          /\ <<r.subject_type, r.subject_id>> \in DOMAIN subjects
          /\ subjects[<<r.subject_type, r.subject_id>>].embedding # None

=============================================================================
